---- MODULE Spec2Model ----
(***************************************************************************)
(* A model of the dock layout manager of enthought.pyface.dock.dock_sizer. *)
(*                                                                         *)
(* The dock tree is kept as a heap of DockItem objects (object identity    *)
(* matters: the code moves objects between groups and relies on parent     *)
(* back references).  Every handler of the code is one operator from       *)
(* machine state to machine state; a Python exception is the 'err' flag    *)
(* of the machine state, which stops the rest of the handler.              *)
(***************************************************************************)
EXTENDS Integers, Sequences, FiniteSets, TLC

\* ---------------------------------------------------------------- bounds

\* Number of panels (widgets) of the window.
NumControls == 2
\* Largest number of groups (Regions and Sections) a gesture may start from.
MaxTreeGroups == 3
\* Largest number of SetStructure calls in one run.
MaxSets == 1
\* Largest number of handlers one run starts on a tree that is not sound.
MaxUnsound == 2
\* The calls of SetContents, the first one included.
MaxContents == 2
\* The items of the tuple or the list passed to SetContents.
MaxItems == 2
\* The items of a tuple or a list nested in the argument of SetContents.
MaxInner == 1
\* The items of the Section whose sizes are computed.
MaxChildren == 3
\* The largest minimum size of a panel.
MaxMin == 1
\* The largest extent a Section is laid out in, along its axis.
MaxExtent == 27
\* The largest extent a Section is laid out in, across its axis.
MaxAcross == 2
\* The drags that are followed move by move.
MaxDrags == 2
\* The pointer positions over the feature icon of a control.
MaxXY == 2
\* The feature popup timers of a control that are pending at one time.
MaxTimers == 2
\* The calls of pre_drag and post_drag on a control.
MaxCalls == 4
\* The largest width of a control of the row of two Regions.
MaxWidth == 100
\* The largest width the row of two Regions is laid out into.
MaxTarget == 250
\* The tabs of the Region whose tabs are laid out.
MaxTabs == 3
\* The largest width of the text of a tab.
MaxText == 1
\* The largest width of the images of the tab scroll buttons.
MaxScroller == 10
\* The largest width the Region is laid out into; the smallest is 16 less.
MaxRegion == 58
\* The largest coordinate of the origin of the item that is probed.
MaxOrigin == 1
\* The largest width and height of the item that is probed.
MaxSide == 2
\* The pointer positions tried next to each edge of a Section, on each side.
MaxNear == 2
\* The largest coordinate of the pointer while the button is pressed.
MaxPress == 3
\* The DockWindowFeature classes that are registered.
MaxFeatures == 2
\* The calls of pre_drag and post_drag on a control whose features are
\* installed.
MaxHovers == 2
\* The items of a Section whose splitters are moved.
MaxPanes == 3
\* The pixels a Section whose splitters are moved has beyond its gutters.
MaxFree == 3
\* The items of a Region whose is_notebook is read.
MaxNotebook == 2
\* The controls of a Region that is one of these items.
MaxNested == 2
\* The pixels such a Section lacks for its gutters.
MaxShort == 1
\* The largest coordinate of the pointer along the axis of such a Section.
MaxPointer == 3

\* --------------------------------------------------- program constants

DOCK_TOP      == 0
DOCK_BOTTOM   == 1
DOCK_LEFT     == 2
DOCK_RIGHT    == 3
DOCK_TAB      == 4
DOCK_TABADD   == 5
DOCK_BAR      == 6
DOCK_NONE     == 7
DOCK_SPLITTER == 8
DOCK_EXPORT   == 9

\* Python's None, as an object reference and as a widget handle.
None == 0

Widgets == 1..NumControls

\* The heap holds the live tree, a structure being installed next to it and
\* the groups one gesture creates.
HeapSize == 2 * (NumControls + MaxTreeGroups) + 4

Nodes == 1..HeapSize

\* ------------------------------------------------------------ sequences

\* list.index: the 0-based position of the first x in s, -1 for ValueError.
Index0(s, x) ==
    IF \E i \in 1..Len(s) : s[i] = x
    THEN (CHOOSE i \in 1..Len(s) : s[i] = x /\ \A j \in 1..(i - 1) : s[j] # x) - 1
    ELSE -1

\* del s[i], 0-based.
Delete0(s, i) == [k \in 1..(Len(s) - 1) |-> IF k <= i THEN s[k] ELSE s[k + 1]]

\* s[i:i+1] = t, 0-based.
Splice0(s, i, t) == SubSeq(s, 1, i) \o t \o SubSeq(s, i + 2, Len(s))

\* s[i] = x, 0-based; the index -1 is Python's last element.
Replace0(s, i, x) == [s EXCEPT ![IF i < 0 THEN Len(s) + 1 + i ELSE i + 1] = x]

\* list.insert( i, x ): an index beyond the end appends.
Insert0(s, i, x) ==
    LET j == IF i > Len(s) THEN Len(s) ELSE IF i < 0 THEN 0 ELSE i
    IN  SubSeq(s, 1, j) \o <<x>> \o SubSeq(s, j + 1, Len(s))

SeqToSet(s) == {s[i] : i \in 1..Len(s)}

\* ----------------------------------------------------------------- heap

\* A slot of the heap that holds no object. The fields are the traits of
\* DockItem, DockControl, DockRegion and DockSection the model follows;
\* 'sized' stands for width >= 0 and height >= 0 (a new item has -1, -1).
FreeNode ==
    [kind |-> "free", parent |-> None, contents |-> <<>>, active |-> 0,
     is_row |-> TRUE, dock_window |-> FALSE, id |-> 0, control |-> None,
     visible |-> TRUE, on_close |-> FALSE, dockable |-> FALSE,
     features |-> FALSE, sized |-> FALSE]

\* DockControl( control = w, id = w, ... ): a leaf wrapping panel w.
NewControl(w, oc, dk, ft) ==
    [FreeNode EXCEPT !.kind = "control", !.id = w, !.control = w,
                     !.on_close = oc, !.dockable = dk, !.features = ft]

\* The style of the control of panel w: the second panel is drawn as a tab.
StyleOf(w) == IF w = 2 THEN "tab" ELSE "horizontal"

Raise(m) == [m EXCEPT !.err = TRUE]

KindOf(m, n) == IF n = None THEN "none" ELSE m.heap[n].kind

IsGroup(m, n) == KindOf(m, n) \in {"region", "section"}

FreeSlots(h) == {n \in Nodes : h[n].kind = "free"}

\* The object a constructor call creates: the lowest free slot.
Alloc(m) ==
    CHOOSE n \in FreeSlots(m.heap) : \A k \in FreeSlots(m.heap) : n <= k

\* The recursion limit of the interpreter, in calls.
Fuel == HeapSize + 1

\* 'item.parent = self' for every item added to the contents of group g.
SetParents(h, items, g) ==
    [n \in Nodes |->
        IF n \in SeqToSet(items) THEN [h[n] EXCEPT !.parent = g] ELSE h[n]]

\* 'region.active = a'.
SetActive(m, r, a) == [m EXCEPT !.heap[r].active = a]

\* ------------------------------------------------------------ traversals

\* DockControl.visible (a trait) and DockGroup._get_visible (some item is
\* visible).
RECURSIVE VisibleF(_, _, _)
VisibleF(h, n, fuel) ==
    IF fuel = 0 THEN FALSE
    ELSE IF h[n].kind = "control" THEN h[n].visible
    ELSE \E i \in 1..Len(h[n].contents) : VisibleF(h, h[n].contents[i], fuel - 1)

IsVisible(h, n) == VisibleF(h, n, Fuel)

\* DockGroup._get_visible_contents.
RECURSIVE SelectVisible(_, _)
SelectVisible(h, s) ==
    IF s = <<>> THEN <<>>
    ELSE (IF IsVisible(h, Head(s)) THEN <<Head(s)>> ELSE <<>>)
         \o SelectVisible(h, Tail(s))

VisibleContents(h, g) == SelectVisible(h, h[g].contents)

\* DockGroup._get_style: the style of the first item, recursively.
RECURSIVE StyleF(_, _, _)
StyleF(h, n, fuel) ==
    IF fuel = 0 THEN "horizontal"
    ELSE IF h[n].kind = "control" THEN StyleOf(h[n].id)
    ELSE IF Len(h[n].contents) > 0 THEN StyleF(h, h[n].contents[1], fuel - 1)
    ELSE "horizontal"

\* DockRegion._get_is_notebook.
IsNotebook(h, r) ==
    LET vc == VisibleContents(h, r)
    IN  IF Len(vc) = 1 THEN StyleF(h, vc[1], Fuel) = "tab" ELSE Len(vc) > 1

\* DockControl.get_controls and DockGroup.get_controls: the controls below
\* n in depth-first order.
RECURSIVE ControlsF(_, _, _, _)
ControlsF(h, s, visibleOnly, fuel) ==
    IF s = <<>> \/ fuel = 0 THEN <<>>
    ELSE LET n == Head(s)
             here ==
                 IF h[n].kind = "control"
                 THEN (IF visibleOnly /\ ~h[n].visible THEN <<>> ELSE <<n>>)
                 ELSE ControlsF(h, IF visibleOnly THEN VisibleContents(h, n)
                                                  ELSE h[n].contents,
                                visibleOnly, fuel - 1)
         IN  here \o ControlsF(h, Tail(s), visibleOnly, fuel)

GetControls(h, n, visibleOnly) == ControlsF(h, <<n>>, visibleOnly, Fuel)

\* The nodes that some chain of 'contents' links reaches from the nodes of S.
RECURSIVE Below(_, _)
Below(h, S) ==
    LET T == S \cup UNION {SeqToSet(h[n].contents) : n \in S}
    IN  IF T = S THEN S ELSE Below(h, T)

\* The objects the interpreter keeps: those reachable from the roots R by
\* 'contents' and 'parent' references.
RECURSIVE Reach(_, _)
Reach(h, S) ==
    LET T == (S \cup UNION {SeqToSet(h[n].contents) : n \in S}
                \cup {h[n].parent : n \in S}) \ {None}
    IN  IF T = S THEN S ELSE Reach(h, T)

\* Whether some group lies below itself.
Cyclic(h, root) ==
    \E n \in Below(h, {root}) :
        n \in Below(h, SeqToSet(h[n].contents))

\* calc_min of DockControl, DockRegion and DockSection: the features of the
\* window are installed on every control with a panel that is visited
\* (check_features), and an item without a size gets one. A Region that is
\* no notebook visits its first visible item only.
RECURSIVE CalcMinSeen(_, _, _)
CalcMinSeen(h, s, fuel) ==
    IF s = <<>> \/ fuel = 0 THEN {}
    ELSE LET n == Head(s)
         IN  (IF h[n].kind = "control" THEN {n}
              ELSE LET vc == VisibleContents(h, n)
                   IN  {n} \cup CalcMinSeen(h,
                           IF h[n].kind = "region" /\ ~IsNotebook(h, n)
                              /\ Len(vc) > 0
                           THEN <<vc[1]>> ELSE vc,
                           fuel - 1))
             \cup CalcMinSeen(h, Tail(s), fuel)

CalcMinF(h, s, fuel) ==
    LET seen == CalcMinSeen(h, s, fuel)
    IN  [n \in Nodes |->
            IF n \notin seen THEN h[n]
            ELSE IF h[n].kind # "control" THEN [h[n] EXCEPT !.sized = TRUE]
            ELSE IF h[n].control # None
                 THEN [h[n] EXCEPT !.features = TRUE, !.sized = TRUE]
            ELSE h[n]]

\* calc_min( True ) as the handlers of a change of 'contents' call it. A
\* group below itself exhausts the recursion limit; the exception is logged
\* by the trait notification and the handler goes on.
CalcMin(h, g) == IF g \in Below(h, SeqToSet(h[g].contents)) THEN h
                 ELSE CalcMinF(h, <<g>>, Fuel)

\* A change of the items of g.contents: the list is replaced, the items the
\* change added are re-parented and the minimum size of g is calculated.
SetItems(m, g, s, added) ==
    [m EXCEPT !.heap =
        CalcMin(SetParents([m.heap EXCEPT ![g].contents = s], added, g), g)]

\* DockRegion( contents = items ) and DockSection( is_row = r ).set(
\* contents = items ): the new group in slot g; all its items are re-parented
\* and its minimum size is calculated.
MkGroup(m, g, kind, isRow, items) ==
    [m EXCEPT !.heap =
        CalcMin(SetParents([m.heap EXCEPT ![g] =
                               [FreeNode EXCEPT !.kind = kind, !.is_row = isRow,
                                                !.contents = items]],
                           items, g), g)]

\* ------------------------------------------------- DockRegion, DockSection

\* DockRegion.add( control, before, after, activate ).
RegionAdd(m, r, control, before, after, activate) ==
    IF m.err THEN m
    ELSE
    LET c0  == m.heap[r].contents
        own == m.heap[control].parent = r
    IN  IF own /\ Index0(c0, control) < 0 THEN Raise(m)
        ELSE
        LET c1 == IF own THEN Delete0(c0, Index0(c0, control)) ELSE c0
            m0 == IF own THEN SetItems(m, r, c1, <<>>) ELSE m
            i  == IF before = None
                  THEN (IF after = None THEN Len(c1)
                                        ELSE Index0(c1, after) + 1)
                  ELSE Index0(c1, before)
            missing == IF before = None
                       THEN after # None /\ Index0(c1, after) < 0
                       ELSE Index0(c1, before) < 0
        IN  IF missing THEN Raise(m0)
            ELSE LET m1 == SetItems(m0, r, Insert0(c1, i, control), <<control>>)
                 IN  IF activate THEN SetActive(m1, r, i) ELSE m1

RECURSIVE Remove(_, _, _, _)

\* A DockRegion.remove( item ) that deletes whatever item it is given.
RegionRemoveDeletes(m, r, item, fuel) ==
    LET c0 == m.heap[r].contents
        i  == Index0(c0, item)
        Shrink(m0, a) ==
            IF (a > i) \/ (a >= Len(c0) - 1) THEN SetActive(m0, r, a - 1)
            ELSE m0
        Collapse(m1, p, n) ==
            IF p # None /\ (n = 0 \/ (n = 1 /\ KindOf(m1, p) = "region"))
            THEN Remove(m1, p, r, fuel - 1)
            ELSE m1
        Removed(m1) ==
            Collapse(m1, m1.heap[r].parent, Len(m1.heap[r].contents))
    IN  IF i < 0 THEN Raise(m)
        ELSE Removed(Shrink(SetItems(m, r, Delete0(c0, i), <<>>),
                            m.heap[r].active))

\* A DockRegion.remove( item ) that lowers the active index only when the
\* item precedes the active one.
RegionRemoveKeepsIndex(m, r, item, fuel) ==
    LET c0 == m.heap[r].contents
        i  == Index0(c0, item)
        Shrink(m0, a) ==
            IF a > i THEN SetActive(m0, r, a - 1)
            ELSE m0
        Collapse(m1, p, n) ==
            IF p # None /\ (n = 0 \/ (n = 1 /\ KindOf(m1, p) = "region"))
            THEN Remove(m1, p, r, fuel - 1)
            ELSE m1
        Removed(m1) ==
            Collapse(m1, m1.heap[r].parent, Len(m1.heap[r].contents))
    IN  IF i < 0 THEN Raise(m)
        ELSE Removed(
                IF IsGroup(m, item) /\ Len(m.heap[item].contents) = 1
                THEN LET only == m.heap[item].contents[1]
                     IN  IF KindOf(m, only) = "region"
                         THEN SetItems(m, r,
                                       Splice0(c0, i, m.heap[only].contents),
                                       m.heap[only].contents)
                         ELSE SetItems(m, r, Replace0(c0, i, only), <<only>>)
                ELSE Shrink(SetItems(m, r, Delete0(c0, i), <<>>),
                            m.heap[r].active))

\* DockRegion.remove( item ).
RegionRemove(m, r, item, fuel) ==
    LET c0 == m.heap[r].contents
        i  == Index0(c0, item)
        Shrink(m0, a) ==
            IF (a > i) \/ (a >= Len(c0) - 1) THEN SetActive(m0, r, a - 1)
            ELSE m0
        Collapse(m1, p, n) ==
            IF p # None /\ (n = 0 \/ (n = 1 /\ KindOf(m1, p) = "region"))
            THEN Remove(m1, p, r, fuel - 1)
            ELSE m1
        Removed(m1) ==
            Collapse(m1, m1.heap[r].parent, Len(m1.heap[r].contents))
    IN  IF i < 0 THEN Raise(m)
        ELSE Removed(
                IF IsGroup(m, item) /\ Len(m.heap[item].contents) = 1
                THEN LET only == m.heap[item].contents[1]
                     IN  IF KindOf(m, only) = "region"
                         THEN SetItems(m, r,
                                       Splice0(c0, i, m.heap[only].contents),
                                       m.heap[only].contents)
                         ELSE SetItems(m, r, Replace0(c0, i, only), <<only>>)
                ELSE Shrink(SetItems(m, r, Delete0(c0, i), <<>>),
                            m.heap[r].active))

\* DockSection.remove( item ).
SectionRemove(m, s, item, fuel) ==
    LET c0 == m.heap[s].contents
        i  == Index0(c0, item)
        Collapse(m1, p, n) ==
            IF p # None
            THEN (IF n <= 1 THEN Remove(m1, p, s, fuel - 1) ELSE m1)
            ELSE IF n = 0 /\ m1.heap[s].dock_window
                 THEN [m1 EXCEPT !.empty = TRUE]
                 ELSE m1
        Removed(m1) ==
            Collapse(m1, m1.heap[s].parent, Len(m1.heap[s].contents))
    IN  IF i < 0 THEN Raise(m)
        ELSE Removed(
                IF IsGroup(m, item) /\ Len(m.heap[item].contents) = 1
                THEN SetItems(m, s, Replace0(c0, i, m.heap[item].contents[1]),
                              <<m.heap[item].contents[1]>>)
                ELSE SetItems(m, s, Delete0(c0, i), <<>>))

\* 'group.remove( item )': the method of the class of the group. A
\* DockControl has no 'remove' (AttributeError), and a chain of calls longer
\* than the recursion limit ends in a RuntimeError.
Remove(m, g, item, fuel) ==
    IF m.err THEN m
    ELSE IF fuel = 0 THEN Raise(m)
    ELSE IF KindOf(m, g) = "region" THEN RegionRemove(m, g, item, fuel)
    ELSE IF KindOf(m, g) = "section" THEN SectionRemove(m, g, item, fuel)
    ELSE Raise(m)

\* Whether a docking of this kind splits a Section across its axis.
Perpendicular(isRow, kind) ==
    IF isRow THEN kind \in {DOCK_TOP, DOCK_BOTTOM}
             ELSE kind \in {DOCK_LEFT, DOCK_RIGHT}

\* A DockSection.add that puts the new Region before the target whatever the
\* kind is.
SectionAddBefore(m, s, control, region, kind) ==
    IF m.err THEN m
    ELSE
    LET Split(m0, nr, c0, i, row, ns) ==
            SetItems(MkGroup(m0, ns, "section", ~row, <<nr, region>>),
                     s, Replace0(c0, i, ns), <<ns>>)
        Put(m1, nr, c1, own, j) ==
            IF own /\ j < 0 THEN Raise(m1)
            ELSE SetItems(m1, s, Insert0(c1, j, nr), <<nr>>)
        Taken(m0, nr, c1, own) ==
            Put(IF own THEN SetItems(m0, s, c1, <<>>) ELSE m0, nr, c1, own,
                Index0(c1, region))
        Along(m0, nr, c0, own) ==
            IF own /\ Index0(c0, nr) < 0 THEN Raise(m0)
            ELSE Taken(m0, nr,
                       IF own THEN Delete0(c0, Index0(c0, nr)) ELSE c0, own)
        Locate(m0, nr, c0, i, row) ==
            IF i < 0 THEN Raise(m0)
            ELSE IF Perpendicular(row, kind)
            THEN Split(m0, nr, c0, i, row, Alloc(m0))
            ELSE Along(m0, nr, c0, m0.heap[nr].parent = s)
        Wrapped(m0, nr) ==
            Locate(m0, nr, m0.heap[s].contents,
                  Index0(m0.heap[s].contents, region), m0.heap[s].is_row)
        Wrap(nr) == Wrapped(MkGroup(m, nr, "region", TRUE, <<control>>), nr)
    IN  IF KindOf(m, control) # "region" THEN Wrap(Alloc(m))
        ELSE Wrapped(m, control)

\* DockSection.add( control, region, kind ).
SectionAdd(m, s, control, region, kind) ==
    IF m.err THEN m
    ELSE
    LET first == (kind = DOCK_TOP) \/ (kind = DOCK_LEFT)
        after == (kind = DOCK_RIGHT /\ m.heap[s].is_row)
                 \/ (kind = DOCK_BOTTOM /\ ~m.heap[s].is_row)
        Split(m0, nr, c0, i, row, ns) ==
            SetItems(MkGroup(m0, ns, "section", ~row,
                             IF first THEN <<nr, region>> ELSE <<region, nr>>),
                     s, Replace0(c0, i, ns), <<ns>>)
        Put(m1, nr, c1, own, j) ==
            IF own /\ j < 0 THEN Raise(m1)
            ELSE SetItems(m1, s, Insert0(c1, IF after THEN j + 1 ELSE j, nr),
                          <<nr>>)
        Taken(m0, nr, c1, own) ==
            Put(IF own THEN SetItems(m0, s, c1, <<>>) ELSE m0, nr, c1, own,
                Index0(c1, region))
        Along(m0, nr, c0, own) ==
            IF own /\ Index0(c0, nr) < 0 THEN Raise(m0)
            ELSE Taken(m0, nr,
                       IF own THEN Delete0(c0, Index0(c0, nr)) ELSE c0, own)
        Locate(m0, nr, c0, i, row) ==
            IF i < 0 THEN Raise(m0)
            ELSE IF Perpendicular(row, kind)
            THEN Split(m0, nr, c0, i, row, Alloc(m0))
            ELSE Along(m0, nr, c0, m0.heap[nr].parent = s)
        Wrapped(m0, nr) ==
            Locate(m0, nr, m0.heap[s].contents,
                  Index0(m0.heap[s].contents, region), m0.heap[s].is_row)
        Wrap(nr) == Wrapped(MkGroup(m, nr, "region", TRUE, <<control>>), nr)
    IN  IF KindOf(m, control) # "region" THEN Wrap(Alloc(m))
        ELSE Wrapped(m, control)

\* 'region.parent.add( control, region, kind )': the method of the class of
\* the parent. DockRegion.add takes the arguments as ( control, before,
\* after ).
GroupAdd(m, g, control, region, kind) ==
    IF m.err THEN m
    ELSE IF KindOf(m, g) = "section" THEN SectionAdd(m, g, control, region, kind)
    ELSE IF KindOf(m, g) = "region" THEN RegionAdd(m, g, control, region, kind, TRUE)
    ELSE Raise(m)

\* --------------------------------------------------------------- DockInfo

\* A DockInfo value: its kind, its target region and its target item.
Info(kind, region, control) ==
    [kind |-> kind, region |-> region, control |-> control]

no_dock_info == Info(DOCK_NONE, None, None)

\* The items recalc_sizes of the root visits: the visible items below it.
RECURSIVE LaidOutF(_, _, _)
LaidOutF(h, s, fuel) ==
    IF s = <<>> \/ fuel = 0 THEN {}
    ELSE LET n == Head(s)
         IN  (IF h[n].kind = "control" THEN {n}
              ELSE {n} \cup LaidOutF(h, VisibleContents(h, n), fuel - 1))
             \cup LaidOutF(h, Tail(s), fuel)

\* window.Layout(): DockSizer.CalcMin, then DockSizer.RecalcSizes, which
\* gives every visible item below the root its size. A tree that holds a
\* group below itself exhausts the recursion limit, and
\* DockControl.recalc_sizes fails on a control without a panel.
Layout(m) ==
    LET Sized(h1, laid) ==
            IF \E n \in laid : h1[n].kind = "control" /\ h1[n].control = None
            THEN Raise(m)
            ELSE [m EXCEPT !.lay = TRUE,
                           !.heap = [n \in Nodes |->
                               IF n \in laid THEN [h1[n] EXCEPT !.sized = TRUE]
                               ELSE h1[n]]]
        Measured(h1) == Sized(h1, LaidOutF(h1, <<m.root>>, Fuel))
    IN  IF m.err THEN m
        ELSE IF Cyclic(m.heap, m.root) THEN Raise(m)
        ELSE Measured(CalcMinF(m.heap, <<m.root>>, Fuel))

\* What a group passes to the set_visibility of its i-th item. In
\* set_visibility( visible ) a Region passes 'visible and (i == active)' and
\* a Section passes 'visible'; in _set_visibility a Region passes
\* 'i == active' and a Section passes 'item.visible'.
Passed(h, n, i, own, visible) ==
    IF h[n].kind = "region"
    THEN (own \/ visible) /\ i - 1 = h[n].active
    ELSE IF own THEN IsVisible(h, h[n].contents[i]) ELSE visible

\* item.set_visibility( visible ) of DockControl, DockRegion and
\* DockSection, and the loop of the two group methods and of their
\* _set_visibility from the i-th item on. 'shown' says of every panel
\* whether it is shown (control.Show); a control without a panel shows
\* nothing.
RECURSIVE set_visibility(_, _, _, _, _)
RECURSIVE SetEach(_, _, _, _, _, _, _)
set_visibility(h, shown, n, visible, fuel) ==
    IF fuel = 0 THEN shown
    ELSE IF h[n].kind = "control"
    THEN (IF h[n].control = None THEN shown
          ELSE [shown EXCEPT ![h[n].control] = visible])
    ELSE SetEach(h, shown, n, 1, FALSE, visible, fuel)

SetEach(h, shown, n, i, own, visible, fuel) ==
    IF i > Len(h[n].contents) THEN shown
    ELSE SetEach(h, set_visibility(h, shown, h[n].contents[i],
                                   Passed(h, n, i, own, visible), fuel - 1),
                 n, i + 1, own, visible, fuel)

\* The panels that are shown after item.recalc_sizes of the items of s, one
\* after the other: a control shows and hides nothing; a Region lays out
\* its visible items (the first of them only when it is no notebook), a
\* Section its visible items, and both end with _set_visibility.
RECURSIVE RecalcShown(_, _, _, _)
RecalcShown(h, shown, s, fuel) ==
    IF s = <<>> \/ fuel = 0 THEN shown
    ELSE LET n    == Head(s)
             vc   == VisibleContents(h, n)
             laid == IF h[n].kind = "section" \/ IsNotebook(h, n) THEN vc
                     ELSE SubSeq(vc, 1, 1)
             here == IF h[n].kind = "control" THEN shown
                     ELSE SetEach(h, RecalcShown(h, shown, laid, fuel - 1),
                                  n, 1, TRUE, TRUE, fuel)
         IN  RecalcShown(h, here, Tail(s), fuel)

\* The panels that are shown after DockSizer.RecalcSizes, when 'shown' were
\* shown before.
PanelsShown(m, shown) == RecalcShown(m.heap, shown, <<m.root>>, Fuel)

\* DockInfo.dock, kind DOCK_TABADD.
DockTabAdd(m, region, item, control) ==
    LET Activated(m1, i) ==
            IF i < 0 THEN Raise(m1) ELSE SetActive(m1, region, i)
        Joined(m1) == Activated(m1, Index0(m1.heap[region].contents, item))
        Appended(m0, nc) ==
            SetItems(m0, item, Append(m0.heap[item].contents, nc), <<nc>>)
        WrapInto(nc) ==
            Appended(MkGroup(m, nc, "region", TRUE, <<control>>), nc)
        Selected(m3, ns) ==
            SetActive(m3, region, Index0(m3.heap[region].contents, ns))
        Replaced(m2, i, ns) ==
            Selected(SetItems(m2, region,
                              Replace0(m2.heap[region].contents, i, ns),
                              <<ns>>), ns)
        Paired(m1, nc, i, ri, ns) ==
            Replaced(MkGroup(m1, ns, "section", TRUE, <<ri, nc>>), i, ns)
        ItemWrapped(m1, nc, i, ri) == Paired(m1, nc, i, ri, Alloc(m1))
        Indexed(m0, nc, i, ri) ==
            IF i < 0 THEN Raise(m0)
            ELSE ItemWrapped(MkGroup(m0, ri, "region", TRUE, <<item>>),
                             nc, i, ri)
        Wrapped(m0, nc) ==
            Indexed(m0, nc, Index0(m0.heap[region].contents, item), Alloc(m0))
        Wrap(nc) == Wrapped(MkGroup(m, nc, "region", TRUE, <<control>>), nc)
    IN  IF KindOf(m, item) = "control"
        THEN (IF KindOf(m, control) = "control" THEN Wrap(Alloc(m))
              ELSE Wrapped(m, control))
        ELSE Joined(
                 IF KindOf(m, item) = "section"
                 THEN IF KindOf(m, control) = "section"
                         /\ m.heap[item].is_row = m.heap[control].is_row
                      THEN SetItems(m, item,
                                    m.heap[item].contents
                                        \o m.heap[control].contents,
                                    m.heap[control].contents)
                      ELSE IF KindOf(m, control) = "control"
                           THEN WrapInto(Alloc(m))
                           ELSE Appended(m, control)
                 ELSE SetItems(m, item, Append(m.heap[item].contents, control),
                               <<control>>))

\* DockInfo.dock, an edge kind without a region: the control is docked at an
\* edge of the root section of the sizer.
DockRoot(m, control, kind) ==
    LET s0   == m.root
        wrap == Perpendicular(m.heap[s0].is_row, kind)
                /\ Len(m.heap[s0].contents) > 0
        First(m1, ns, nr) ==
            SetItems([m1 EXCEPT !.heap[ns].is_row = ~m1.heap[ns].is_row],
                     ns, <<nr>>, <<nr>>)
        Fresh(m0, ns, nr) ==
            First(MkGroup(m0, nr, "region", TRUE, <<control>>), ns, nr)
        Edge(m0, ns, c0) ==
            IF Len(c0) > 0
            THEN SectionAdd(m0, ns, control,
                            IF kind \in {DOCK_RIGHT, DOCK_BOTTOM}
                            THEN c0[Len(c0)] ELSE c0[1],
                            kind)
            ELSE Fresh(m0, ns, Alloc(m0))
        Rooted(m0, ns) == Edge(m0, ns, m0.heap[ns].contents)
        Wrap(ns) ==
            Rooted([MkGroup(m, ns, "section", ~m.heap[s0].is_row, <<s0>>)
                       EXCEPT !.root = ns], ns)
    IN  IF wrap THEN Wrap(Alloc(m)) ELSE Rooted(m, s0)

\* The structural change of DockInfo.dock, by kind.
DockMutate(m, info, control) ==
    IF info.kind \in {DOCK_TAB, DOCK_BAR}
    THEN (IF KindOf(m, info.region) = "region"
          THEN RegionAdd(m, info.region, control, info.control, None, TRUE)
          ELSE Raise(m))
    ELSE IF info.kind = DOCK_TABADD
    THEN (IF KindOf(m, info.region) = "region"
             /\ KindOf(m, info.control) # "none"
          THEN DockTabAdd(m, info.region, info.control, control)
          ELSE Raise(m))
    ELSE IF info.region # None
    THEN GroupAdd(m, m.heap[info.region].parent, control, info.region, info.kind)
    ELSE DockRoot(m, control, info.kind)

\* The end of DockInfo.dock: the control is removed from its previous parent
\* when that is not its parent any more.
DockDetach(m, theParent, control) ==
    IF ~m.err /\ theParent # None /\ theParent # m.heap[control].parent
    THEN Remove(m, theParent, control, Fuel)
    ELSE m

\* DockInfo.dock( control, window ).
Dock(m, info, control) ==
    IF info.kind >= DOCK_NONE THEN m
    ELSE Layout(DockDetach(DockMutate(m, info, control),
                           m.heap[control].parent, control))

\* ------------------------------------------------------------ DockControl

\* Whether the close callback in effect refuses the close: on_close when it
\* is set, else the dockable's dockable_close, returning exactly False.
CloseRefused(node, answer) ==
    IF node.on_close THEN answer = FALSE
    ELSE IF node.dockable THEN answer = FALSE
    ELSE FALSE

\* DockControl.reset_features.
ResetFeatures(m, c) == [m EXCEPT !.heap[c].features = FALSE]

\* DockControl.close once the callback has let it go on: the features are
\* reset, the control is removed from its parent, its panel and its parent
\* are cleared and the window is laid out.
Closing(m, c, layout) ==
    LET Cleared(m2) == IF layout THEN Layout(m2) ELSE m2
        Removed(m1, w) ==
            IF m1.err THEN m1
            ELSE Cleared([m1 EXCEPT !.heap[c].control = None,
                                    !.heap[c].parent = None,
                                    !.dc[w] = None])
    IN  Removed(Remove(ResetFeatures(m, c), m.heap[c].parent, c, Fuel),
                m.heap[c].control)

\* A close that resets the features of the control before it asks the
\* callback.
CloseResetsFirst(m, c, answer, layout) ==
    IF m.heap[c].control = None THEN m
    ELSE IF CloseRefused(m.heap[c], answer) THEN ResetFeatures(m, c)
    ELSE Closing(m, c, layout)

\* DockControl.close( layout, force ); 'answer' is what the close callback
\* returns.
Close(m, c, answer, layout) ==
    IF m.heap[c].control = None THEN m
    ELSE IF CloseRefused(m.heap[c], answer) THEN m
    ELSE Closing(m, c, layout)

\* DockRegion._update_active.
UpdateActive(m, r) ==
    LET c0 == m.heap[r].contents
        a  == m.heap[r].active
        up == {i \in a..(Len(c0) - 1) : IsVisible(m.heap, c0[i + 1])}
        dn == {i \in 0..(a - 1) : IsVisible(m.heap, c0[i + 1])}
    IN  IF up # {} THEN SetActive(m, r, CHOOSE i \in up : \A j \in up : i <= j)
        ELSE IF dn # {}
        THEN SetActive(m, r, CHOOSE i \in dn : \A j \in dn : i >= j)
        ELSE SetActive(m, r, -1)

\* DockRegion._active_changed( old, new ), run when an assignment has changed
\* the value of 'active': the dockable_tab_activated calls it makes, in
\* order, each with the control and the flag it passes. h is the heap at the
\* time of the assignment.
active_changed(h, r, old, new) ==
    LET c0 == h[r].contents
        Call(k, flag) ==
            IF 0 <= k /\ k < Len(c0) /\ h[c0[k + 1]].kind = "control"
               /\ h[c0[k + 1]].dockable
            THEN <<[control |-> c0[k + 1], activated |-> flag]>>
            ELSE <<>>
    IN  Call(old, FALSE) \o Call(new, TRUE)

\* The dockable_tab_activated calls of Region r in a method that led from
\* machine state m0 to m1 and assigns r.active once, after its changes to
\* r.contents (add, remove, activate, tab_clicked): the trait handler runs
\* only when the value has changed.
TabActivated(m0, m1, r) ==
    IF m1.heap[r].active = m0.heap[r].active THEN <<>>
    ELSE active_changed(m1.heap, r, m0.heap[r].active, m1.heap[r].active)

\* DockControl._visible_changed and DockRegion.show_hide( control ). The
\* call is made by a trait notification, which logs an exception of the
\* handler and goes on.
ShowHide(m, r, c) ==
    IF KindOf(m, r) # "region" THEN m
    ELSE LET i == Index0(m.heap[r].contents, c)
         IN  IF i < 0 THEN m
             ELSE IF i = m.heap[r].active THEN UpdateActive(m, r)
             ELSE IF m.heap[r].active < 0 /\ m.heap[c].visible
             THEN SetActive(m, r, i)
             ELSE m

\* DockControl._layout( layout ): a whole-window layout is requested for
\* later (do_later).
LayoutLater(m, c, layout) ==
    IF layout /\ m.heap[c].control # None THEN [m EXCEPT !.later = TRUE] ELSE m

\* DockControl.show( visible, layout ).
Show(m, c, visible, layout) ==
    IF visible # m.heap[c].visible
    THEN LET m1 == [m EXCEPT !.heap[c].visible = visible]
             m2 == IF m1.heap[c].parent # None
                   THEN ShowHide(m1, m1.heap[c].parent, c)
                   ELSE m1
         IN  LayoutLater(m2, c, layout)
    ELSE m

\* DockControl.set_name( name, layout ); 'changed' says the name is not the
\* one the control has. The name is no part of the tree.
set_name(m, c, changed, layout) ==
    IF changed THEN LayoutLater(m, c, layout) ELSE m

\* DockRegion.tab_clicked( control ).
TabClicked(m, r, c) ==
    LET i == Index0(m.heap[r].contents, c)
    IN  IF i < 0 THEN Raise(m)
        ELSE IF i # m.heap[r].active THEN SetActive(m, r, i)
        ELSE m

\* DockControl.activate( layout ) and DockRegion.activate( control, layout ).
Activate(m, c, layout) ==
    LET r == m.heap[c].parent
    IN  IF r = None THEN m
        ELSE IF KindOf(m, r) # "region" THEN Raise(m)
        ELSE IF m.heap[c].visible /\ IsNotebook(m.heap, r)
        THEN LET a == Index0(m.heap[r].contents, c)
             IN  IF a < 0 THEN Raise(m)
                 ELSE IF a # m.heap[r].active
                 THEN LET m1 == SetActive(m, r, a)
                      IN  IF layout THEN [m1 EXCEPT !.later = TRUE] ELSE m1
                 ELSE m
        ELSE m

\* -------------------------------------------------------------- DockSizer

\* get_structure of DockControl, DockRegion and DockSection: a copy of the
\* layout traits of the item and, for a group, of the structures of its
\* items. A structure holds no panel, no callback and no feature.
RECURSIVE StructF(_, _, _)
StructF(h, n, fuel) ==
    IF fuel = 0 THEN [kind |-> "cut"]
    ELSE IF h[n].kind = "control"
    THEN [kind |-> "control", id |-> h[n].id, visible |-> h[n].visible,
          sized |-> h[n].sized]
    ELSE IF h[n].kind = "region"
    THEN [kind |-> "region", active |-> h[n].active, sized |-> h[n].sized,
          contents |-> [i \in 1..Len(h[n].contents) |->
                           StructF(h, h[n].contents[i], fuel - 1)]]
    ELSE [kind |-> "section", is_row |-> h[n].is_row, sized |-> h[n].sized,
          contents |-> [i \in 1..Len(h[n].contents) |->
                           StructF(h, h[n].contents[i], fuel - 1)]]

\* DockSizer.GetStructure.
GetStructure(m) == StructF(m.heap, m.root, Fuel)

\* The objects of a structure: every item of the structure is an object of
\* its own, with the parent references its constructor sets. The result is
\* the machine state with the objects and the object of the structure.
RECURSIVE Build(_, _)
RECURSIVE BuildAll(_, _, _)
BuildAll(m, ss, done) ==
    IF ss = <<>> THEN [m |-> m, n |-> done]
    ELSE LET b == Build(m, Head(ss))
         IN  BuildAll(b.m, Tail(ss), Append(done, b.n))

\* A Build that leaves the active index of a Region at its default.
BuildForgetsActive(m, st) ==
    IF st.kind = "control"
    THEN LET n == Alloc(m)
         IN  [m |-> [m EXCEPT !.heap[n] =
                        [FreeNode EXCEPT !.kind = "control", !.id = st.id,
                                         !.visible = st.visible,
                                         !.sized = st.sized]],
              n |-> n]
    ELSE LET b == BuildAll(m, st.contents, <<>>)
             n == Alloc(b.m)
         IN  [m |-> MkGroup(b.m, n, st.kind,
                            IF st.kind = "section" THEN st.is_row ELSE TRUE,
                            b.n),
              n |-> n]

Build(m, st) ==
    IF st.kind = "control"
    THEN LET n == Alloc(m)
         IN  [m |-> [m EXCEPT !.heap[n] =
                        [FreeNode EXCEPT !.kind = "control", !.id = st.id,
                                         !.visible = st.visible,
                                         !.sized = st.sized]],
              n |-> n]
    ELSE LET b == BuildAll(m, st.contents, <<>>)
             n == Alloc(b.m)
             g == MkGroup(b.m, n, st.kind,
                          IF st.kind = "section" THEN st.is_row ELSE TRUE, b.n)
         IN  [m |-> IF st.kind = "region" THEN SetActive(g, n, st.active) ELSE g,
              n |-> n]

\* SetStructure, first loop: the map from id to the control of the
\* structure; a control whose id the map already holds is removed.
RECURSIVE MapIds(_, _, _)
MapIds(m, cs, map) ==
    IF cs = <<>> \/ m.err THEN [m |-> m, map |-> map]
    ELSE LET c == Head(cs)
         IN  IF map[m.heap[c].id] # None
             THEN MapIds(Remove(m, m.heap[c].parent, c, Fuel), Tail(cs), map)
             ELSE MapIds(m, Tail(cs), [map EXCEPT ![m.heap[c].id] = c])

\* DockControl._control_changed, for a control that gets the panel w:
\* the panel refers to the control, and reset_tab resets the features and
\* asks for a layout.
BindPanel(m, c, w) ==
    IF w = m.heap[c].control THEN m
    ELSE LET m1 == [m EXCEPT !.heap[c].control = w]
         IN  IF w = None THEN m1
             ELSE LayoutLater(ResetFeatures([m1 EXCEPT !.dc[w] = c], c), c, TRUE)

\* SetStructure, second loop: every live control is mapped onto the control
\* of the structure with its id, which takes over its panel and its
\* dockable; the live controls without one are the extras.
RECURSIVE MapLive(_, _, _, _)
MapLive(m, cs, map, extras) ==
    IF cs = <<>> THEN [m |-> m, map |-> map, extras |-> extras]
    ELSE LET c  == Head(cs)
             mc == map[m.heap[c].id]
         IN  IF mc # None
             THEN MapLive([BindPanel(m, mc, m.heap[c].control)
                              EXCEPT !.heap[mc].dockable = m.heap[c].dockable],
                          Tail(cs), [map EXCEPT ![m.heap[c].id] = None], extras)
             ELSE MapLive(m, Tail(cs), map, Append(extras, c))

\* SetStructureHandler.resolve_id: the handler of the base class resolves
\* no id.
ResolveId(handler, id) == None

\* SetStructure, third loop: a control of the structure that no live control
\* was mapped onto and that the handler does not resolve is removed.
RECURSIVE DropUnresolved(_, _, _, _)
DropUnresolved(m, ids, map, handler) ==
    IF ids = {} \/ m.err THEN m
    ELSE LET id == CHOOSE i \in ids : \A j \in ids : i <= j
             c  == map[id]
             w  == IF handler = "none" THEN None ELSE ResolveId(handler, id)
         IN  IF c = None THEN DropUnresolved(m, ids \ {id}, map, handler)
             ELSE IF w # None
             THEN DropUnresolved(BindPanel(m, c, w), ids \ {id}, map, handler)
             ELSE DropUnresolved(Remove(m, m.heap[c].parent, c, Fuel),
                                 ids \ {id}, map, handler)

\* DockGroup._get_control: the panel of the first item, recursively.
RECURSIVE PanelF(_, _, _)
PanelF(h, n, fuel) ==
    IF fuel = 0 THEN None
    ELSE IF h[n].kind = "control" THEN h[n].control
    ELSE IF Len(h[n].contents) = 0 THEN None
    ELSE PanelF(h, h[n].contents[1], fuel - 1)

\* DockSizer.SetContents( contents ) for a DockGroup: the group becomes the
\* root, and the owner of the window is set on it when it has a panel.
SetContents(m, g) ==
    [m EXCEPT !.root = g,
              !.heap[g].dock_window =
                  (m.heap[g].dock_window \/ PanelF(m.heap, g, Fuel) # None)]

\* SetStructure, the extras: without a handler they become a new region at
\* the end of the root of the structure; the handler of the base class
\* hides their panels (resolve_extras).
PlaceExtras(m, sroot, extras, handler) ==
    IF Len(extras) = 0 \/ handler # "none" THEN m
    ELSE LET nr == Alloc(m)
             m1 == MkGroup(m, nr, "region", TRUE, extras)
         IN  SetItems(m1, sroot, Append(m1.heap[sroot].contents, nr), <<nr>>)

\* DockSizer.SetStructure( window, structure, handler ), after the current
\* structure was saved.
SetStructure(m, st, handler) ==
    IF st.kind \notin {"region", "section"} THEN m
    ELSE
    LET Place4(m3, b, m2) ==
            IF m3.err THEN m3
            ELSE SetContents(PlaceExtras(m3, b.n, m2.extras, handler), b.n)
        Drop3(b, m2) ==
            Place4(DropUnresolved(m2.m, Widgets, m2.map, handler), b, m2)
        Live2(b, m1) ==
            IF m1.m.err THEN m1.m
            ELSE Drop3(b, MapLive(m1.m, GetControls(m1.m.heap, m.root, FALSE),
                                  m1.map, <<>>))
        Ids1(b) ==
            Live2(b, MapIds(b.m, GetControls(b.m.heap, b.n, FALSE),
                            [i \in Widgets |-> None]))
    IN  Ids1(Build(m, st))

\* DockSizer.ResetStructure: the saved structure is installed; SetStructure
\* saves the current one first.
ResetStructure(m, saved) == SetStructure(m, saved, "none")

\* The result of a step of the tree-building API: the machine state, the
\* object or the objects built, and whether no TypeError was raised.
Built(m, n, ok) == [m |-> m, n |-> n, ok |-> ok]

RECURSIVE set_region(_, _)
RECURSIVE set_section(_, _, _)

\* The loop of DockSizer._set_region over the items of a tuple: a tuple
\* becomes a region, a list a row section, a DockItem is taken as it is, and
\* anything else raises TypeError.
RECURSIVE RegionItems(_, _, _)
RegionItems(m, contents, items) ==
    IF contents = <<>> THEN Built(m, items, TRUE)
    ELSE LET Taken(b) ==
                 IF b.ok THEN RegionItems(b.m, Tail(contents), Append(items, b.n))
                 ELSE b
             item == Head(contents)
         IN  IF item.shape = "tuple" THEN Taken(set_region(m, item.items))
             ELSE IF item.shape = "list"
             THEN Taken(set_section(m, item.items, TRUE))
             ELSE IF item.shape \in {"control", "group"}
             THEN Taken(Built(m, item.node, TRUE))
             ELSE Built(m, items, FALSE)

RECURSIVE SectionItems(_, _, _, _)

\* A loop over the items of a list that takes a DockGroup as it is, as the
\* loop over the items of a tuple does.
SectionItemsTakeGroups(m, contents, is_row, items) ==
    IF contents = <<>> THEN Built(m, items, TRUE)
    ELSE LET Taken(b) ==
                 IF b.ok
                 THEN SectionItems(b.m, Tail(contents), is_row,
                                   Append(items, b.n))
                 ELSE b
             Wrapped(n) ==
                 Built(MkGroup(m, n, "region", TRUE, <<Head(contents).node>>),
                       n, TRUE)
             item == Head(contents)
         IN  IF item.shape = "tuple" THEN Taken(set_region(m, item.items))
             ELSE IF item.shape = "list"
             THEN Taken(set_section(m, item.items, ~is_row))
             ELSE IF item.shape = "control" THEN Taken(Wrapped(Alloc(m)))
             ELSE IF item.shape = "group" THEN Taken(Built(m, item.node, TRUE))
             ELSE Built(m, items, FALSE)

\* The loop of DockSizer._set_section over the items of a list: a tuple
\* becomes a region, a list a section across, a DockControl a region of its
\* own, and anything else raises TypeError.
SectionItems(m, contents, is_row, items) ==
    IF contents = <<>> THEN Built(m, items, TRUE)
    ELSE LET Taken(b) ==
                 IF b.ok
                 THEN SectionItems(b.m, Tail(contents), is_row,
                                   Append(items, b.n))
                 ELSE b
             Wrapped(n) ==
                 Built(MkGroup(m, n, "region", TRUE, <<Head(contents).node>>),
                       n, TRUE)
             item == Head(contents)
         IN  IF item.shape = "tuple" THEN Taken(set_region(m, item.items))
             ELSE IF item.shape = "list"
             THEN Taken(set_section(m, item.items, ~is_row))
             ELSE IF item.shape = "control" THEN Taken(Wrapped(Alloc(m)))
             ELSE Built(m, items, FALSE)

\* DockSizer._set_region( contents ).
set_region(m, contents) ==
    LET Grouped(b, n) ==
            IF b.ok THEN Built(MkGroup(b.m, n, "region", TRUE, b.n), n, TRUE)
            ELSE b
        Listed(b) == Grouped(b, Alloc(b.m))
    IN  Listed(RegionItems(m, contents, <<>>))

\* DockSizer._set_section( contents, is_row ).
set_section(m, contents, is_row) ==
    LET Grouped(b, n) ==
            IF b.ok THEN Built(MkGroup(b.m, n, "section", is_row, b.n), n, TRUE)
            ELSE b
        Listed(b) == Grouped(b, Alloc(b.m))
    IN  Listed(SectionItems(m, contents, is_row, <<>>))

\* DockSizer.SetContents( contents ) for any argument: the tree is built,
\* and when no TypeError was raised it becomes the contents of the sizer.
\* The saved structure is set by the first call only.
SetContentsOf(m, contents) ==
    LET Installed(b) == IF b.ok THEN Built(SetContents(b.m, b.n), b.n, TRUE)
                        ELSE b
    IN  IF contents.shape = "group"
        THEN Installed(Built(m, contents.node, TRUE))
        ELSE IF contents.shape = "tuple"
        THEN Installed(set_region(m, contents.items))
        ELSE IF contents.shape = "list"
        THEN Installed(set_section(m, contents.items, TRUE))
        ELSE IF contents.shape = "control"
        THEN Installed(set_section(m, <<contents>>, TRUE))
        ELSE Built(m, None, FALSE)

\* The value of _max_structure when the window is not maximized (None).
NoStructure == [kind |-> "none"]

\* The assignment 'control.visible = visible' and its _visible_changed.
SetVisible(m, c, visible) ==
    IF visible = m.heap[c].visible THEN m
    ELSE LET Changed(m1) ==
                 IF m1.heap[c].parent # None
                 THEN ShowHide(m1, m1.heap[c].parent, c)
                 ELSE m1
         IN  Changed([m EXCEPT !.heap[c].visible = visible])

\* DockSizer.MinMax on a window that is not maximized, after the structure
\* was recorded: of the controls get_controls() returns, the visible ones,
\* only dock_control stays visible.
RECURSIVE Maximize(_, _, _)
Maximize(m, cs, dock_control) ==
    IF cs = <<>> THEN m
    ELSE Maximize(SetVisible(m, Head(cs), Head(cs) = dock_control),
                  Tail(cs), dock_control)

\* DockSizer.MinMax( window, dock_control ): the tree it leaves.
MinMax(m, max, dock_control) ==
    IF max = NoStructure
    THEN Maximize(m, GetControls(m.heap, m.root, TRUE), dock_control)
    ELSE SetStructure(m, max, "none")

\* DockSizer.IsMaximizable.
IsMaximizable(max) == max = NoStructure

\* ------------------------------------------------------- pointer gestures

\* DockItem.dock_info_at for an item x whose drag bar or tab holds the
\* pointer: a tab of a notebook is a target of its own, the drag bar of a
\* single item stands for the region.
ItemTab(h, x, shift) ==
    LET p   == h[x].parent
        tab == p # None /\ h[p].kind = "region" /\ IsNotebook(h, p)
    IN  IF shift THEN Info(DOCK_TABADD, p, x)
        ELSE IF tab THEN Info(DOCK_TAB, p, x)
        ELSE Info(DOCK_TAB, p, None)

\* DockRegion.dock_info_at and DockSection.dock_info_at( force = False ):
\* the DockInfo values some pointer position gives below group n. 'shown'
\* is the _visible flag the last layout left on n: the items of a region
\* other than the active one are not shown.
RECURSIVE TargetsF(_, _, _, _, _)
TargetsF(h, n, shown, shift, fuel) ==
    IF fuel = 0 \/ ~shown THEN {}
    ELSE
    LET c0  == h[n].contents
        vis == {i \in 1..Len(c0) : IsVisible(h, c0[i])}
        sub == UNION {
                 (IF h[n].kind = "region" \/ h[c0[i]].kind # "control"
                  THEN {ItemTab(h, c0[i], shift)} ELSE {})
                 \cup
                 (IF h[c0[i]].kind = "control" THEN {}
                  ELSE TargetsF(h, c0[i],
                                h[n].kind = "section" \/ i - 1 = h[n].active,
                                shift, fuel - 1)) : i \in vis}
    IN  IF h[n].kind = "section" THEN sub
        ELSE sub
             \cup (IF IsNotebook(h, n) THEN {Info(DOCK_TAB, n, None)} ELSE {})
             \cup {Info(k, n, None) :
                      k \in {DOCK_LEFT, DOCK_RIGHT, DOCK_TOP, DOCK_BOTTOM}}

\* DockSizer.DockInfoAt( x, y, size, is_control ): what the root section
\* answers when it is forced to answer.
DockInfoAt(m, shift) ==
    TargetsF(m.heap, m.root, TRUE, shift, Fuel)
    \cup {Info(k, None, None) :
             k \in {DOCK_LEFT, DOCK_RIGHT, DOCK_TOP, DOCK_BOTTOM}}
    \cup {Info(DOCK_EXPORT, None, None), Info(DOCK_SPLITTER, None, None)}

\* The items whose drag bar or tab is on display: the visible items of the
\* regions that are shown.
RECURSIVE ShownItemsF(_, _, _, _)
ShownItemsF(h, n, shown, fuel) ==
    IF fuel = 0 \/ ~shown \/ h[n].kind = "control" THEN {}
    ELSE LET c0  == h[n].contents
             vis == {i \in 1..Len(c0) : IsVisible(h, c0[i])}
         IN  (IF h[n].kind = "region" THEN {c0[i] : i \in vis} ELSE {})
             \cup UNION {ShownItemsF(h, c0[i],
                                     h[n].kind = "section" \/ i - 1 = h[n].active,
                                     fuel - 1) : i \in vis}

ShownItems(m) == ShownItemsF(m.heap, m.root, TRUE, Fuel)

\* DockItem.mouse_move, the legality test: a DockInfo that would dock the
\* item onto its own place is replaced by no_dock_info.
Legal(m, self, info) ==
    LET region == m.heap[self].parent
    IN  IF info.region = region /\ region # None
           /\ ( Len(m.heap[region].contents) <= 1
                \/ ( DOCK_TAB <= info.kind /\ info.kind <= DOCK_BAR
                     /\ info.control = self ) )
        THEN no_dock_info
        ELSE info

\* DockItem.mouse_up with Alt held, the test 'the target is not contained
\* within the group we are trying to move'.
RECURSIVE Within(_, _, _, _)
Within(h, region, control, fuel) ==
    IF region = None \/ fuel = 0 THEN FALSE
    ELSE IF region = control THEN TRUE
    ELSE Within(h, h[region].parent, control, fuel - 1)

\* A mouse_up that docks the Region of the item whenever Alt is held.
DraggedRegion(m, self, alt) ==
    IF ~alt THEN self ELSE m.heap[self].parent

\* DockItem.mouse_up at the end of a drag: the item itself is docked, or
\* with Alt held its notebook, or the parent of its region when the region
\* is no notebook.
Dragged(m, self, alt) ==
    IF ~alt THEN self
    ELSE LET p == m.heap[self].parent
         IN  IF KindOf(m, p) = "region" /\ ~IsNotebook(m.heap, p)
             THEN m.heap[p].parent ELSE p

\* The DockInfo the drag ends with: no_dock_info when the move was not
\* legal or when mouse_up gives the drag up.
DropInfo(m, self, info, alt) ==
    LET legal == Legal(m, self, info)
    IN  IF alt /\ Within(m.heap, legal.region, Dragged(m, self, alt), Fuel)
        THEN no_dock_info
        ELSE legal

\* The end of mouse_up: DockInfo.dock for the item the drag moves.
Drop(m, control, drop) ==
    IF drop.kind >= DOCK_NONE THEN m
    ELSE IF control = None THEN Raise(m)
    ELSE Dock(m, drop, control)

MouseUp(m, self, info, alt) ==
    Drop(m, Dragged(m, self, alt), DropInfo(m, self, info, alt))

\* The DockInfo values a drag of item 'self' can end with, over all pointer
\* positions, with and without Shift.
Drops(m, self, alt) ==
    {DropInfo(m, self, info, alt) :
        info \in DockInfoAt(m, TRUE) \cup DockInfoAt(m, FALSE)}

\* ------------------------------------------- the sizes of one Section

SplitterSizeH == 9
SplitterSizeV == 12

Max(a, b) == IF a >= b THEN a ELSE b
Min(a, b) == IF a <= b THEN a ELSE b

\* int( round( float( a ) / b ) ) for b > 0: round() of Python 2 rounds a
\* half away from zero.
Round(a, b) ==
    IF a >= 0 THEN (2 * a + b) \div (2 * b) ELSE -((b - 2 * a) \div (2 * b))

\* DockGroup.visible_contents, as the places of the visible items.
RECURSIVE VisiblePlaces(_, _)
VisiblePlaces(contents, i) ==
    IF i > Len(contents) THEN <<>>
    ELSE IF contents[i].visible THEN <<i>> \o VisiblePlaces(contents, i + 1)
    ELSE VisiblePlaces(contents, i + 1)

\* DockGroup.resizable: some visible control can be resized.
Resizable(sec) == \E i \in 1..Len(sec.contents) :
                     sec.contents[i].visible /\ sec.contents[i].resizable

\* A gutter that has the size of a horizontal splitter in a row as well.
GutterH(is_row) == SplitterSizeH

\* The number of gutters of DockSection.calc_min and the size of one.
Gutter(is_row) == IF is_row THEN SplitterSizeV ELSE SplitterSizeH

\* item.recalc_sizes( x, y, dx, dy ) of a control or of a Region.
ItemRecalc(item, dx, dy) ==
    [item EXCEPT !.width = Max(0, dx), !.height = Max(0, dy)]

\* The sum of the extents of the visible items along the axis of the Section.
RECURSIVE Extents(_, _, _)
Extents(contents, places, is_row) ==
    IF places = <<>> THEN 0
    ELSE (IF is_row THEN contents[Head(places)].width
          ELSE contents[Head(places)].height)
         + Extents(contents, Tail(places), is_row)

\* The largest extent of the visible items across the axis of the Section.
RECURSIVE Widest(_, _, _)
Widest(contents, places, is_row) ==
    IF places = <<>> THEN 0
    ELSE Max(contents[Head(places)].min,
             Widest(contents, Tail(places), is_row))

\* The sum of the minimum sizes of the visible items.
RECURSIVE Minimums(_, _)
Minimums(contents, places) ==
    IF places = <<>> THEN 0
    ELSE contents[Head(places)].min + Minimums(contents, Tail(places))

\* DockSection.calc_min(): the minimum size of the Section, which becomes its
\* size while it has none.
SectionCalcMin(sec) ==
    LET places == VisiblePlaces(sec.contents, 1)
        n      == Len(places)
        along  == Minimums(sec.contents, places)
                  + (IF Resizable(sec) THEN (n - 1) * Gutter(sec.is_row)
                     ELSE (n + 1) * 3)
        across == Widest(sec.contents, places, sec.is_row)
                  + (IF Resizable(sec) THEN 0 ELSE 6)
        Sized(tdx, tdy) ==
            IF sec.width < 0 THEN [sec EXCEPT !.width = tdx, !.height = tdy]
            ELSE sec
    IN  IF sec.is_row THEN Sized(along, across) ELSE Sized(across, along)

\* The loop of DockSection.recalc_sizes over the visible items: item i gets
\* its share of delta, the last one what remains, and a splitter follows
\* every item but the last.
RECURSIVE Allocate(_, _, _, _, _, _, _, _)
Allocate(sec, places, i, at, remaining, delta, cur, across) ==
    IF i > Len(places) THEN sec
    ELSE LET n      == Len(places) - 1
             item   == sec.contents[places[i]]
             extent == IF sec.is_row THEN item.width ELSE item.height
             share  == IF i - 1 < n THEN Round(extent * delta, cur)
                       ELSE remaining
             Put(idx) ==
                 [sec EXCEPT
                    !.contents[places[i]] =
                        IF sec.is_row THEN ItemRecalc(item, idx, across)
                        ELSE ItemRecalc(item, across, idx),
                    !.splitters =
                        IF i - 1 < n
                        THEN Append(@, [index |-> i - 1, at |-> at + idx,
                                        style |-> IF sec.is_row THEN "vertical"
                                                  ELSE "horizontal"])
                        ELSE @]
             Go(idx) == Allocate(Put(idx), places, i + 1,
                                 at + idx + Gutter(sec.is_row),
                                 remaining - share, delta, cur, across)
         IN  Go(share + extent)

\* The loop of DockSection.recalc_sizes_fixed over the visible items: every
\* item gets its minimum size while the space lasts.
RECURSIVE AllocateFixed(_, _, _, _, _)
AllocateFixed(sec, places, i, dx, dy) ==
    IF i > Len(places) THEN sec
    ELSE LET item == sec.contents[places[i]]
             idx  == Min(dx, item.min)
             idy  == Min(dy, item.min)
             Put  == [sec EXCEPT !.contents[places[i]] =
                                     ItemRecalc(item, idx, idy)]
         IN  IF sec.is_row
             THEN AllocateFixed(Put, places, i + 1, Max(0, dx - idx - 3), dy)
             ELSE AllocateFixed(Put, places, i + 1, dx, Max(0, dy - idy - 3))

\* DockSection.recalc_sizes_fixed( x, y, dx, dy ).
recalc_sizes_fixed(sec, dx, dy) ==
    AllocateFixed([sec EXCEPT !.splitters = <<>>],
                  VisiblePlaces(sec.contents, 1), 1,
                  Max(0, dx - 3), Max(0, dy - 3))

\* The layout that keeps the splitters of the last pass.
recalc_sizes_keeps_splitters(sec, dx, dy) ==
    [width |-> Max(0, dx), height |-> Max(0, dy), is_row |-> sec.is_row,
     contents |-> sec.contents, splitters |-> sec.splitters]

\* DockSection.recalc_sizes( x, y, dx, dy ) at x = y = 0.
recalc_sizes(sec, dx, dy) ==
    LET sized  == [sec EXCEPT !.width = Max(0, dx), !.height = Max(0, dy)]
        places == VisiblePlaces(sec.contents, 1)
        n      == Len(places) - 1
        along  == (IF sec.is_row THEN sized.width ELSE sized.height)
                  - n * Gutter(sec.is_row)
        across == IF sec.is_row THEN sized.height ELSE sized.width
        Run(cur) == Allocate([sized EXCEPT !.splitters = <<>>], places, 1, 0,
                             along - cur, along - cur, cur, across)
    IN  IF ~Resizable(sec) THEN recalc_sizes_fixed(sized, sized.width,
                                                   sized.height)
        ELSE Run(Max(1, Extents(sec.contents, places, sec.is_row)))

\* ------------------------------------------- the splitters of a Section

SPLIT_VLEFT   == 0
SPLIT_VMIDDLE == 1
SPLIT_VRIGHT  == 2
SPLIT_HTOP    == 3
SPLIT_HMIDDLE == 4
SPLIT_HBOTTOM == 5

\* An item of a Section along the axis of the Section: its trait width (or
\* height), and where its bounds begin and how long they are, 0 and 0 until
\* a layout. The coordinates across the axis are passed on as they are by
\* every method below.
NewPane(min, visible) ==
    [visible |-> visible, width |-> min, at |-> 0, size |-> 0]

\* A DockSplitter of a layout: its index, where its bounds begin, its
\* _last_bounds ( <<>> for None ), whether a draw has set its _hot_spot,
\* and _click_pending, _xy, _max_bounds and _bounds ( <<>> for None ).
NewSplitter(index, at) ==
    [index |-> index, at |-> at, last |-> <<>>, hot |-> FALSE,
     pending |-> FALSE, xy |-> 0, max |-> <<0, 0>>, drawn |-> <<>>]

\* A Section of resizable items that has no layout yet; 'pressed' is the
\* splitter the button is down on, as its place in 'splitters', or 0.
NewSplit(is_row, contents) ==
    [is_row |-> is_row, contents |-> contents, splitters |-> <<>>,
     extent |-> 0, pressed |-> 0]

\* item.recalc_sizes( x, y, dx, dy ) of an item of a Section, along the
\* axis.
PaneRecalc(item, x, dx) ==
    [item EXCEPT !.at = x, !.width = Max(0, dx), !.size = Max(0, dx)]

\* The sum of the widths (or heights) of the visible items.
RECURSIVE Widths(_, _)
Widths(contents, places) ==
    IF places = <<>> THEN 0
    ELSE contents[Head(places)].width + Widths(contents, Tail(places))

\* The loop of DockSection.recalc_sizes over the visible items, with the
\* place of every item and of every splitter.
RECURSIVE PlacePanes(_, _, _, _, _, _, _)
PlacePanes(sec, places, i, x, remaining, delta, cur) ==
    IF i > Len(places) THEN sec
    ELSE LET n     == Len(places) - 1
             item  == sec.contents[places[i]]
             share == IF i - 1 < n THEN Round(item.width * delta, cur)
                      ELSE remaining
             idx   == share + item.width
             Put   == [sec EXCEPT
                         !.contents[places[i]] = PaneRecalc(item, x, idx),
                         !.splitters = IF i - 1 < n
                                       THEN Append(@, NewSplitter(i - 1, x + idx))
                                       ELSE @]
         IN  PlacePanes(Put, places, i + 1, x + idx + Gutter(sec.is_row),
                        remaining - share, delta, cur)

\* The new splitters take the _last_bounds of the ones at the same places.
Preserved(new, cur) ==
    [i \in 1..Len(new) |->
        IF i <= Len(cur) THEN [new[i] EXCEPT !.last = cur[i].last]
        ELSE new[i]]

\* DockSection.recalc_sizes( x, y, dx, dy ) along the axis, at x = 0, of a
\* Section whose items are resizable.
split_recalc_sizes(sec, extent) ==
    LET places == VisiblePlaces(sec.contents, 1)
        n      == Len(places) - 1
        along  == Max(0, extent) - n * Gutter(sec.is_row)
        cur    == Max(1, Widths(sec.contents, places))
        sized  == [sec EXCEPT !.extent = Max(0, extent), !.splitters = <<>>,
                              !.pressed = 0]
        Laid(new) == [new EXCEPT !.splitters = Preserved(@, sec.splitters)]
    IN  IF places = <<>> THEN sized
        ELSE Laid(PlacePanes(sized, places, 1, 0, along - cur, along - cur,
                             cur))

\* A state that is taken from the items at self.index and self.index + 1
\* of the visible contents of the Section.
splitter_state_visible(sec, k) ==
    LET places == VisiblePlaces(sec.contents, 1)
        s  == sec.splitters[k]
        i1 == sec.contents[places[s.index + 1]]
        i2 == sec.contents[places[s.index + 2]]
    IN  IF ~sec.is_row
        THEN (IF s.at = i1.at THEN SPLIT_HTOP
              ELSE IF s.at + Gutter(sec.is_row) = i2.at + i2.size
              THEN SPLIT_HBOTTOM ELSE SPLIT_HMIDDLE)
        ELSE (IF s.at = i1.at THEN SPLIT_VLEFT
              ELSE IF s.at + Gutter(sec.is_row) = i2.at + i2.size
              THEN SPLIT_VRIGHT ELSE SPLIT_VMIDDLE)

\* The places in parent.contents of the two items DockSplitter._get_state
\* reads: contents[ self.index ] and contents[ self.index + 1 ].
StatePair(sec, k) ==
    <<sec.splitters[k].index + 1, sec.splitters[k].index + 2>>

\* DockSplitter._get_state of the k-th splitter.
splitter_state(sec, k) ==
    LET s  == sec.splitters[k]
        i1 == sec.contents[StatePair(sec, k)[1]]
        i2 == sec.contents[StatePair(sec, k)[2]]
    IN  IF ~sec.is_row
        THEN (IF s.at = i1.at THEN SPLIT_HTOP
              ELSE IF s.at + Gutter(sec.is_row) = i2.at + i2.size
              THEN SPLIT_HBOTTOM ELSE SPLIT_HMIDDLE)
        ELSE (IF s.at = i1.at THEN SPLIT_VLEFT
              ELSE IF s.at + Gutter(sec.is_row) = i2.at + i2.size
              THEN SPLIT_VRIGHT ELSE SPLIT_VMIDDLE)

\* DockSection.get_splitter_bounds( splitter ) along the axis: where the
\* first of the two visible items begins, and how far it is from there to
\* the end of the second.
get_splitter_bounds(sec, k) ==
    LET places == VisiblePlaces(sec.contents, 1)
        i1 == sec.contents[places[k]]
        i2 == sec.contents[places[k + 1]]
    IN  <<i1.at, i2.at + i2.size - i1.at>>

\* DockSection.update_splitter( splitter, event ): the two visible items
\* next to the splitter are laid out again; the draw that the RefreshRect
\* asks for is not part of it.
update_splitter(sec, k) ==
    LET places == VisiblePlaces(sec.contents, 1)
        x  == sec.splitters[k].at
        dx == Gutter(sec.is_row)
        i1 == sec.contents[places[k]]
        i2 == sec.contents[places[k + 1]]
    IN  [sec EXCEPT
           !.contents[places[k]] = PaneRecalc(i1, i1.at, x - i1.at),
           !.contents[places[k + 1]] =
               PaneRecalc(i2, x + dx, i2.at + i2.size - x - dx)]

\* DockSplitter.draw of every splitter: the _hot_spot is set.
split_draw(sec) ==
    [sec EXCEPT !.splitters = [i \in 1..Len(@) |-> [@[i] EXCEPT !.hot = TRUE]]]

\* DockSplitter.mouse_down( event ) of the k-th splitter with the pointer at
\* p along the axis; in_hot says that the pointer is in the _hot_spot.
splitter_mouse_down(sec, k, p, in_hot) ==
    LET s == sec.splitters[k]
    IN  IF s.hot /\ in_hot
        THEN [sec EXCEPT !.pressed = k, !.splitters[k].pending = TRUE]
        ELSE [sec EXCEPT !.pressed = k,
                         !.splitters[k] =
                             [s EXCEPT !.pending = FALSE, !.xy = p,
                                       !.max = get_splitter_bounds(sec, k),
                                       !.drawn = <<s.at>>]]

\* DockSplitter.mouse_move( event ) of the k-th splitter.
splitter_mouse_move(sec, k, p) ==
    LET s == sec.splitters[k]
        x == Min(Max(s.at + p - s.xy, s.max[1]),
                 s.max[1] + s.max[2] - Gutter(sec.is_row))
    IN  IF s.pending THEN sec
        ELSE [sec EXCEPT !.splitters[k].drawn = <<x>>]

\* The click branch of DockSplitter.mouse_up up to 'self.bounds = ...':
\* first_half says that the pointer is in the first half of the _hot_spot
\* across the splitter. The ends are taken the other way round by a
\* vertical splitter.
handle_clicked(sec, k, first_half) ==
    LET places == VisiblePlaces(sec.contents, 1)
        s   == sec.splitters[k]
        dx  == Gutter(sec.is_row)
        i1  == sec.contents[places[s.index + 1]]
        i2  == sec.contents[places[s.index + 2]]
        x   == IF s.last # <<>> THEN s.last[1] ELSE s.at
        mid == splitter_state(sec, k) \in {SPLIT_HMIDDLE, SPLIT_VMIDDLE}
    IN  IF ~mid
        THEN [sec EXCEPT !.splitters[k].at =
                 IF x = s.at \/ x < i1.at \/ x + dx > i2.at + i2.size
                 THEN (i1.at + i2.at + i2.size - dx) \div 2 ELSE x]
        ELSE [sec EXCEPT !.splitters[k] =
                 [s EXCEPT !.last = <<s.at>>,
                           !.at = IF first_half = ~sec.is_row THEN i1.at
                                  ELSE i2.at + i2.size - dx]]

\* DockSplitter.mouse_up( event ) of the k-th splitter. _click_pending, _xy
\* and _max_bounds are not read again before a mouse_down sets them, and
\* are cleared here.
splitter_mouse_up(sec, k, in_hot, first_half) ==
    LET s == sec.splitters[k]
        Up(t) == [t EXCEPT !.pressed = 0, !.splitters[k].pending = FALSE,
                           !.splitters[k].xy = 0,
                           !.splitters[k].max = <<0, 0>>]
    IN  IF s.pending
        THEN (IF ~in_hot THEN Up(sec)
              ELSE update_splitter(Up(handle_clicked(sec, k, first_half)), k))
        ELSE update_splitter(
                 Up([sec EXCEPT !.splitters[k] =
                        [s EXCEPT !.at = s.drawn[1], !.last = <<s.at>>,
                                  !.drawn = <<>>]]), k)

\* ------------------------------------------- the features of a control

FEATURE_NONE          == -1
FEATURE_NORMAL        == 0
FEATURE_CHANGED       == 1
FEATURE_DROP          == 2
FEATURE_DISABLED      == 3
FEATURE_VISIBLE       == 4
FEATURE_DROP_VISIBLE  == 5
FEATURE_PRE_NORMAL    == 6
FEATURE_EXTERNAL_DRAG == 256

FeatureModes == FEATURE_NONE .. FEATURE_PRE_NORMAL

NO_FEATURE_ICON == {FEATURE_NONE, FEATURE_DISABLED, FEATURE_VISIBLE,
                    FEATURE_DROP_VISIBLE}

\* self._feature_mode is None.
Unset == -2

\* a & tag for a >= 0 and a tag of one bit, or of none.
BitAnd(a, tag) == IF tag = 0 THEN 0 ELSE ((a \div tag) % 2) * tag

\* a & (~tag).
BitClear(a, tag) == a - BitAnd(a, tag)

\* DockItem.set_feature_mode( False ): the mode the features of the control
\* give.
set_feature_mode(f) ==
    [f EXCEPT !.feature_mode =
        IF f.bitmap THEN (IF f.drop_features > 0 THEN FEATURE_DROP
                          ELSE FEATURE_NORMAL)
        ELSE FEATURE_DISABLED]

\* DockItem.pre_drag( object, tag ): 'tool' says the object is an
\* IFeatureTool, 'can_drop' that it can be dropped on the control.
pre_drag(f, tool, can_drop, tag) ==
    LET Marked(drop) ==
            [f EXCEPT !.drop_features = drop,
                      !.saved = f.feature_mode + tag,
                      !.feature_mode = IF drop > 0 THEN FEATURE_DROP
                                       ELSE FEATURE_DISABLED]
    IN  IF f.visible /\ f.feature_mode # FEATURE_NONE /\ f.saved = Unset
        THEN Marked(IF tool THEN (IF can_drop THEN 1 ELSE f.drop_features)
                    ELSE IF can_drop /\ f.bitmap THEN 1 ELSE 0)
        ELSE f

\* DockItem.post_drag( tag ).
post_drag(f, tag) ==
    LET Cleared(g) ==
            IF g.feature_mode = FEATURE_NONE THEN g
            ELSE IF g.saved # Unset
                 THEN [g EXCEPT !.feature_mode = BitClear(g.saved, tag),
                                !.saved = Unset]
                 ELSE set_feature_mode(g)
    IN  IF f.saved = Unset \/ tag = 0 \/ BitAnd(f.saved, tag) # 0
        THEN Cleared([f EXCEPT !.drop_features = 0])
        ELSE f

\* DockItem.feature_activate( event, drag_object ) with the pointer at exy;
\* 'over' says it is over the feature icon, 'drag' that there is a drag
\* object, which 'tool' and 'can_drop' describe.
feature_activate(f, exy, over, drag, tool, can_drop) ==
    LET Armed(g) == [g EXCEPT !.xy = exy,
                              !.timers = Append(@, [xy |-> exy, reset |-> FALSE])]
    IN  IF f.feature_mode \in NO_FEATURE_ICON THEN f
        ELSE IF f.xy = exy THEN f
        ELSE IF ~over THEN f
        ELSE IF drag
             THEN Armed(pre_drag(f, tool, can_drop, FEATURE_EXTERNAL_DRAG))
        ELSE Armed(f)

\* DockItem.reset_feature_popup(); the timers that are pending belong to a
\* hover that is over.
reset_feature_popup(f) ==
    [f EXCEPT !.xy = None,
              !.timers = [i \in 1..Len(@) |-> [@[i] EXCEPT !.reset = TRUE]]]

\* DockItem._feature_popup(), called by the timer armed first: the popup is
\* shown when a hover is pending; 'stale' records that the hover of this
\* timer was reset, or that the pending hover is at another place.
feature_popup(f) ==
    LET timer == Head(f.timers)
        g     == [f EXCEPT !.timers = Tail(@)]
    IN  IF f.xy # None
        THEN [g EXCEPT !.feature_mode = IF f.feature_mode = FEATURE_DROP
                                        THEN FEATURE_DROP_VISIBLE
                                        ELSE FEATURE_VISIBLE,
                       !.popup = TRUE,
                       !.stale = (f.stale \/ timer.reset \/ timer.xy # f.xy),
                       !.xy = None]
        ELSE post_drag(g, FEATURE_EXTERNAL_DRAG)

\* DockItem.feature_bar_closed().
feature_bar_closed(f) ==
    [f EXCEPT !.feature_mode = IF f.feature_mode = FEATURE_DROP_VISIBLE
                               THEN FEATURE_DROP ELSE FEATURE_NORMAL,
              !.popup = FALSE]

\* A control with its features in mode 'mode'.
NewFeatures(mode, visible, bitmap) ==
    [feature_mode |-> mode, saved |-> Unset, drop_features |-> 0,
     visible |-> visible, bitmap |-> bitmap, xy |-> None, timers |-> <<>>,
     popup |-> FALSE, stale |-> FALSE]

\* A control without features: 'classes' is the global list 'features' of
\* the feature classes, each with its state, 'features' says of each feature
\* of the control whether its bitmap is not None, 'attached' that the
\* control has a window whose parent is laid out by a DockSizer, and 'drawn'
\* and 'signalled' change with each draw and each feature_changed event.
NewControlFeatures(visible, attached) ==
    [feature_mode |-> FEATURE_NONE, saved |-> Unset, drop_features |-> 0,
     visible |-> visible, bitmap |-> FALSE, xy |-> None, timers |-> <<>>,
     popup |-> FALSE, stale |-> FALSE, classes |-> <<>>, features |-> <<>>,
     num_features |-> 0, attached |-> attached, drawn |-> FALSE,
     signalled |-> FALSE]

\* The features fs are those of the control.
WithFeatures(f, fs) ==
    [f EXCEPT !.features = fs, !.bitmap = \E i \in DOMAIN fs : fs[i]]

\* DockItem.set_feature_mode(): the features have changed.
set_feature_mode_changed(f) ==
    IF f.feature_mode = FEATURE_PRE_NORMAL THEN f
    ELSE [f EXCEPT !.feature_mode = IF f.bitmap THEN FEATURE_CHANGED
                                    ELSE FEATURE_DISABLED]

\* A draw that resolves the mode of a control to FEATURE_NORMAL whatever
\* the bitmaps of its features are.
draw_tab_normal(f) ==
    [f EXCEPT !.drawn = ~@,
              !.feature_mode = IF @ = FEATURE_PRE_NORMAL THEN FEATURE_NORMAL
                               ELSE @]

\* DockItem.draw_tab, draw_fixed and draw_horizontal, as far as the feature
\* mode goes.
draw_tab(f) ==
    IF f.feature_mode = FEATURE_PRE_NORMAL
    THEN [set_feature_mode(f) EXCEPT !.drawn = ~@]
    ELSE [f EXCEPT !.drawn = ~@]

\* DockControl.check_features(): new[i] is what new_feature_for gives for
\* the i-th class that is not applied yet, "none" for no feature, "icon"
\* for a feature with a bitmap and "plain" for one without.
RECURSIVE Apply(_, _, _, _)
Apply(f, mode, new, i) ==
    IF i > Len(new) THEN f
    ELSE IF new[i] = "none" THEN Apply(f, mode, new, i + 1)
    ELSE LET Extended(g) == WithFeatures(g, Append(g.features, new[i] = "icon"))
             Marked(g)   == IF mode = FEATURE_NONE
                            THEN [g EXCEPT !.feature_mode = FEATURE_PRE_NORMAL]
                            ELSE g
             Enabled(g)  == IF /\ g.classes[g.num_features + i] = 1
                               /\ mode \in {FEATURE_NORMAL, FEATURE_DISABLED}
                            THEN set_feature_mode_changed(g)
                            ELSE g
         IN  Apply(Enabled(Marked(Extended(f))), mode, new, i + 1)

check_features(f, new) ==
    IF f.num_features < Len(f.classes) /\ f.attached
    THEN [Apply(f, f.feature_mode, new, 1)
            EXCEPT !.num_features = Len(f.classes)]
    ELSE f

\* DockControl.reset_features().
reset_features(f) ==
    [WithFeatures(f, <<>>) EXCEPT !.num_features = 0]

\* ------------------------------------------- the geometry of one item

\* A test that takes the far edges of the rectangle in.
is_at_closed(b, x, y) ==
    /\ b[1] <= x /\ x <= b[1] + b[3]
    /\ b[2] <= y /\ y <= b[2] + b[4]

\* DockItem.is_at( x, y, bounds ) for the bounds b = ( bx, by, bdx, bdy ).
is_at(b, x, y) ==
    /\ b[1] <= x /\ x < b[1] + b[3]
    /\ b[2] <= y /\ y < b[2] + b[4]

\* The movement of the pointer from which a press becomes a drag.
DragThreshold == 3

Abs(a) == IF a < 0 THEN -a ELSE a

\* A DockItem with its traits 'locked' and 'style' and the private fields of
\* its mouse handlers. 'down' says that the button is pressed on it,
\* 'started' is where the pointer was when _dragging was set, and 'result'
\* is what the last mouse_up did.
NewPress(locked, style) ==
    [locked |-> locked, style |-> style, down |-> FALSE, xy |-> <<0, 0>>,
     closing |-> FALSE, dragging |-> FALSE, started |-> <<0, 0>>,
     result |-> "none"]

\* DockItem.mouse_down( event ): the event is at (x, y), and in_close says
\* whether that is within the close button of the item.
mouse_down(p, x, y, in_close) ==
    [p EXCEPT !.down = TRUE, !.xy = <<x, y>>, !.closing = in_close,
              !.dragging = FALSE, !.result = "none"]

\* A mouse_move that starts the drag with the first move.
mouse_move_at_once(p, x, y) ==
    IF p.closing \/ p.locked \/ p.style = "fixed" THEN p
    ELSE IF ~p.dragging
    THEN [p EXCEPT !.dragging = TRUE, !.started = <<x, y>>]
    ELSE p

\* DockItem.mouse_move( event ), up to the point where the drag has started:
\* what follows looks for the DockInfo under the pointer.
mouse_move(p, x, y) ==
    IF p.closing \/ p.locked \/ p.style = "fixed" THEN p
    ELSE IF ~p.dragging
    THEN (IF Abs(p.xy[1] - x) + Abs(p.xy[2] - y) < DragThreshold THEN p
          ELSE [p EXCEPT !.dragging = TRUE, !.started = <<x, y>>])
    ELSE p

\* DockItem.mouse_up( event ): a close when the press and the release are on
\* the close button, the dock of the DockInfo that is remembered when the
\* press became a drag, and else a click on the tab when the item is drawn
\* as a tab and the release is on it.
mouse_up(p, in_close, on_tab) ==
    [p EXCEPT !.down = FALSE,
              !.result = IF p.closing
                         THEN (IF in_close THEN "close" ELSE "nothing")
                         ELSE IF p.dragging THEN "dock"
                         ELSE IF on_tab THEN "tab_clicked"
                         ELSE "nothing"]

\* The distance from the root Section beyond which a drop is an export.
ExportMargin == 20

\* The smallest of four numbers.
Min4(a, b, c, d) == Min(Min(a, b), Min(c, d))

\* A dock_info_at that compares the distances with their signs.
section_dock_info_at_signed(b, x, y, size, found, force) ==
    LET left   == b[1] - x
        right  == x - b[1] - b[3] + 1
        top    == b[2] - y
        bottom == y - b[2] - b[4] + 1
        choice == Min4(left, right, top, bottom)
        mdx    == Min(size[1], (2 * b[3]) \div 3)
        mdy    == Min(size[2], (2 * b[4]) \div 3)
    IN  IF found = "splitter"
        THEN [kind |-> DOCK_SPLITTER, bounds |-> <<0, 0, 0, 0>>]
        ELSE IF found = "item" THEN [kind |-> DOCK_TAB, bounds |-> b]
        ELSE IF ~force THEN [kind |-> DOCK_NONE, bounds |-> <<0, 0, 0, 0>>]
        ELSE IF Max(Max(left, right), Max(top, bottom)) > ExportMargin
        THEN [kind |-> DOCK_EXPORT, bounds |-> <<0, 0, 0, 0>>]
        ELSE IF choice = left
        THEN [kind |-> DOCK_LEFT, bounds |-> <<b[1], b[2], mdx, b[4]>>]
        ELSE IF choice = right
        THEN [kind |-> DOCK_RIGHT,
              bounds |-> <<b[1] + b[3] - mdx, b[2], mdx, b[4]>>]
        ELSE IF choice = top
        THEN [kind |-> DOCK_TOP, bounds |-> <<b[1], b[2], b[3], mdy>>]
        ELSE [kind |-> DOCK_BOTTOM,
              bounds |-> <<b[1], b[2] + b[4] - mdy, b[3], mdy>>]

\* DockSection.dock_info_at( x, y, size, is_control, force ) of the root
\* Section, whose bounds are b and whose _visible is never False. 'found'
\* says what the steps before the last one find at the point: nothing, a
\* splitter, or a DockInfo that the drag bar or an item answers, which is
\* returned as it is. The kind DOCK_NONE stands for the answer None.
section_dock_info_at(b, x, y, size, found, force) ==
    LET left   == b[1] - x
        right  == x - b[1] - b[3] + 1
        top    == b[2] - y
        bottom == y - b[2] - b[4] + 1
        choice == Min4(Abs(left), Abs(right), Abs(top), Abs(bottom))
        mdx    == Min(size[1], (2 * b[3]) \div 3)
        mdy    == Min(size[2], (2 * b[4]) \div 3)
    IN  IF found = "splitter"
        THEN [kind |-> DOCK_SPLITTER, bounds |-> <<0, 0, 0, 0>>]
        ELSE IF found = "item" THEN [kind |-> DOCK_TAB, bounds |-> b]
        ELSE IF ~force THEN [kind |-> DOCK_NONE, bounds |-> <<0, 0, 0, 0>>]
        ELSE IF Max(Max(left, right), Max(top, bottom)) > ExportMargin
        THEN [kind |-> DOCK_EXPORT, bounds |-> <<0, 0, 0, 0>>]
        ELSE IF choice = Abs(left)
        THEN [kind |-> DOCK_LEFT, bounds |-> <<b[1], b[2], mdx, b[4]>>]
        ELSE IF choice = Abs(right)
        THEN [kind |-> DOCK_RIGHT,
              bounds |-> <<b[1] + b[3] - mdx, b[2], mdx, b[4]>>]
        ELSE IF choice = Abs(top)
        THEN [kind |-> DOCK_TOP, bounds |-> <<b[1], b[2], b[3], mdy>>]
        ELSE [kind |-> DOCK_BOTTOM,
              bounds |-> <<b[1], b[2] + b[4] - mdy, b[3], mdy>>]

\* What a dock_info_at returns: a DockInfo, or None.
Returned(info) == [none |-> FALSE, kind |-> info.kind, bounds |-> info.bounds]

ReturnedNone == [none |-> TRUE, kind |-> DOCK_NONE, bounds |-> <<0, 0, 0, 0>>]

\* A dock_info_at that takes a point at the end of the margin for an export.
dock_info_at_margin(b, x, y, size, found, force, visible) ==
    IF found = "bar"
    THEN Returned([kind |-> DOCK_BAR, bounds |-> b])
    ELSE IF visible = "False" THEN ReturnedNone
    ELSE IF found = "nothing" /\ ~force THEN ReturnedNone
    ELSE IF /\ found = "nothing"
            /\ \/ b[1] - x >= ExportMargin \/ x - b[1] - b[3] + 1 >= ExportMargin
               \/ b[2] - y >= ExportMargin \/ y - b[2] - b[4] + 1 >= ExportMargin
    THEN Returned([kind |-> DOCK_EXPORT, bounds |-> <<0, 0, 0, 0>>])
    ELSE Returned(section_dock_info_at(b, x, y, size, found, force))

\* DockSection.dock_info_at( x, y, size, is_control, force ) of a Section
\* with the bounds b whose _visible is 'visible': "None" as long as no
\* set_visibility has set it. 'found' is "bar" when the point is in the
\* drag bar of the Section, which is asked first.
dock_info_at(b, x, y, size, found, force, visible) ==
    IF found = "bar"
    THEN Returned([kind |-> DOCK_BAR, bounds |-> b])
    ELSE IF visible = "False" THEN ReturnedNone
    ELSE IF found = "nothing" /\ ~force THEN ReturnedNone
    ELSE Returned(section_dock_info_at(b, x, y, size, found, force))

\* A DockInfoAt that answers None when the sizer has no contents, as
\* DockSizer.ObjectAt does.
SizerDockInfoAtOrNone(contents, b, x, y, size, found) ==
    IF contents
    THEN dock_info_at(b, x, y, size, found, TRUE, "None")
    ELSE ReturnedNone

\* DockSizer.DockInfoAt( x, y, size, is_control ): 'contents' says that the
\* sizer has contents, a root Section with the bounds b. No statement sets
\* the _visible of a root Section: set_visibility is called on the contents
\* of a group only.
SizerDockInfoAt(contents, b, x, y, size, found) ==
    IF contents
    THEN dock_info_at(b, x, y, size, found, TRUE, "None")
    ELSE Returned([kind |-> DOCK_NONE, bounds |-> <<0, 0, 0, 0>>])

\* ------------------------------------------------ the tabs of a Region

DragBarSize    == 14
TabHeight      == 26
TabMargin      == 8
NBMarginLeft   == 7
NBMarginRight  == 9
NBMarginTop    == 3
NBMarginBottom == 9
NBPadding      == 4

\* A DockControl of a Region with a text 'text' wide: its tab_width, its
\* bounds and its drag_bounds, which are ( 0, 0, 0, 0 ) until a layout.
NewTab(text, style, locked) ==
    [tab_width |-> text + 2 * TabMargin, style |-> style, locked |-> locked,
     bounds |-> <<0, 0, 0, 0>>, drag_bounds |-> <<0, 0, 0, 0>>]

\* A DockRegion without contents: the traits of its tab scrolling, and the
\* width of the scroll button images once DockImages has loaded them.
NewRegion ==
    [bounds |-> <<0, 0, 0, 0>>, tabs |-> <<>>, left_tab |-> 0, max_tab |-> 0,
     tab_scroll_index |-> -1, tab_clip_bounds |-> <<0, 0, 0, 0>>,
     tab_scroller_dx |-> 0, laid |-> FALSE, failed |-> FALSE]

\* DockRegion._get_is_notebook for the visible items 'tabs'.
is_notebook(tabs) ==
    IF Len(tabs) = 1 THEN tabs[1].style = "tab" ELSE Len(tabs) > 1

\* An item of a Region: a DockControl with its traits visible, style and
\* locked, or a DockRegion with the controls 'items', which a drag with Alt
\* held has docked as a tab. 'cache' is the _is_notebook of such a Region,
\* <<>> for None.
NewChild(visible, style) ==
    [group |-> FALSE, visible |-> visible, style |-> style, locked |-> FALSE,
     items |-> <<>>, cache |-> <<>>]

NewChildRegion(items) ==
    [group |-> TRUE, visible |-> FALSE, style |-> "tab", locked |-> FALSE,
     items |-> items, cache |-> <<>>]

\* A DockRegion with its contents and its _is_notebook.
NewNotebook(contents) == [contents |-> contents, cache |-> <<>>]

\* item.visible: DockGroup._get_visible for a Region.
ChildVisible(item) ==
    IF item.group THEN \E j \in DOMAIN item.items : item.items[j].visible
    ELSE item.visible

\* item.style: DockGroup._get_style for a Region.
ChildStyle(item) ==
    IF ~item.group THEN item.style
    ELSE IF item.items # <<>> THEN item.items[1].style
    ELSE "horizontal"

\* DockGroup.visible_contents, with the style of every item.
RECURSIVE VisibleChildren(_)
VisibleChildren(contents) ==
    IF contents = <<>> THEN <<>>
    ELSE IF ChildVisible(Head(contents))
    THEN <<[style |-> ChildStyle(Head(contents))]>>
         \o VisibleChildren(Tail(contents))
    ELSE VisibleChildren(Tail(contents))

\* DockRegion._get_is_notebook: the cached value, or a new one that is
\* cached.
get_is_notebook(cache, contents) ==
    IF cache = <<>> THEN <<is_notebook(VisibleChildren(contents))>> ELSE cache

\* DockRegion._contents_items_changed: the contents have become 'contents'.
contents_items_changed(nb, contents) ==
    [nb EXCEPT !.contents = contents, !.cache = <<>>]

\* DockRegion.show_hide( control ), as far as _is_notebook goes.
show_hide(cache) == <<>>

\* control.visible = visible for the i-th item of the Region, a control:
\* _visible_changed calls parent.show_hide.
child_show(nb, i, visible) ==
    [nb EXCEPT !.contents[i].visible = visible, !.cache = show_hide(@)]

\* control.visible = visible for the j-th control of the i-th item of the
\* Region, a Region: the parent of the control is that item.
nested_show(nb, i, j, visible) ==
    [nb EXCEPT !.contents[i].items[j].visible = visible,
               !.contents[i].cache = show_hide(@)]

\* control.style = style for the i-th item of the Region: _style_changed.
child_style(nb, i, style) ==
    [nb EXCEPT !.contents[i].style = style, !.cache = <<>>]

\* DockRegion.toggle_lock(): DockGroup.toggle_lock calls toggle_lock of every
\* item and _is_notebook is reset. The lock of the controls of an item that
\* is a Region is not kept.
region_toggle_lock(nb) ==
    [nb EXCEPT !.cache = <<>>,
               !.contents = [i \in 1..Len(@) |->
                   IF @[i].group THEN [@[i] EXCEPT !.cache = <<>>]
                   ELSE [@[i] EXCEPT !.locked = ~@]]]

\* A set_drag_bounds that stores the rectangle as it is given.
set_drag_bounds_unclipped(item, x, y, dx, dy) ==
    [item EXCEPT !.drag_bounds = <<x, y, dx, dy>>]

\* DockItem.set_drag_bounds( x, y, dx, dy ).
set_drag_bounds(item, x, y, dx, dy) ==
    [item EXCEPT !.drag_bounds =
        <<x, y, Min(x + dx, item.bounds[1] + item.bounds[3]) - x,
                Min(y + dy, item.bounds[2] + item.bounds[4]) - y>>]

\* DockControl.recalc_sizes( x, y, dx, dy ): the bounds of the control.
control_recalc_sizes(item, x, y, dx, dy) ==
    [item EXCEPT !.bounds = <<x, y, Max(0, dx), Max(0, dy)>>]

\* The sum of tab_width - 1 over the tabs i .. j.
RECURSIVE TabSpan(_, _, _)
TabSpan(tabs, i, j) ==
    IF i > j THEN 0 ELSE tabs[i].tab_width - 1 + TabSpan(tabs, i + 1, j)

\* The loop of DockRegion.recalc_sizes that finds max_tab: the tabs are taken
\* from the last one until they do not fit left of the scroll buttons.
RECURSIVE MaxTabOf(_, _, _, _)
MaxTabOf(tabs, i, xr, tx0) ==
    IF i < 0 THEN 1
    ELSE IF xr - (tabs[i + 1].tab_width - 1) < tx0
         THEN Min(i + 1, Len(tabs) - 1)
         ELSE MaxTabOf(tabs, i - 1, xr - (tabs[i + 1].tab_width - 1), tx0)

\* ( left_tab < max_tab ) + ( 2 * ( left_tab > 0 ) ) - 1.
ScrollIndex(left_tab, max_tab) ==
    (IF left_tab < max_tab THEN 1 ELSE 0) + (IF left_tab > 0 THEN 2 ELSE 0) - 1

\* 'item.set_drag_bounds( dbx - adx, dby, item.tab_width, dbdy )' for every
\* tab.
Shifted(tabs, adx) ==
    [i \in 1..Len(tabs) |->
        set_drag_bounds(tabs[i], tabs[i].drag_bounds[1] - adx,
                        tabs[i].drag_bounds[2], tabs[i].tab_width,
                        tabs[i].drag_bounds[4])]

\* DockRegion.recalc_sizes( x, y, dx, dy ), the notebook layout; an index
\* beyond the tabs raises IndexError.
NotebookLayout(r, x, y, dx, dy) ==
    LET tx0    == x + NBMarginLeft - NBPadding
        idx    == dx - (NBMarginLeft + NBMarginRight)
        idy    == dy - (TabHeight + NBMarginTop + NBMarginBottom)
        n      == Len(r.tabs)
        placed == [i \in 1..n |->
                     set_drag_bounds(
                         control_recalc_sizes(r.tabs[i], x + NBMarginLeft,
                                              y + TabHeight + NBMarginTop,
                                              idx, idy),
                         tx0 + TabSpan(r.tabs, 1, i - 1), y,
                         r.tabs[i].tab_width, TabHeight)]
        tx     == tx0 + TabSpan(r.tabs, 1, n)
        cdx    == idx + 2 * NBPadding + 1
        xr     == tx0 + cdx
        Scrolled(max_tab, left_tab) ==
            IF left_tab >= n THEN [r EXCEPT !.failed = TRUE]
            ELSE [r EXCEPT
                    !.max_tab = max_tab,
                    !.left_tab = left_tab,
                    !.tab_scroll_index = ScrollIndex(left_tab, max_tab),
                    !.tabs = IF left_tab > 0
                             THEN Shifted(placed,
                                      placed[left_tab + 1].drag_bounds[1] - tx0)
                             ELSE placed,
                    !.tab_clip_bounds =
                        <<tx0, y, cdx - r.tab_scroller_dx, TabHeight>>]
        Scrolling(max_tab) == Scrolled(max_tab, Min(r.left_tab, max_tab))
    IN  IF tx + 2 >= xr
        THEN Scrolling(MaxTabOf(r.tabs, n - 1, xr - r.tab_scroller_dx, tx0))
        ELSE [r EXCEPT !.tabs = placed, !.tab_scroll_index = -1,
                       !.left_tab = 0,
                       !.tab_clip_bounds = <<tx0, y, cdx, TabHeight>>]

\* DockRegion.recalc_sizes( x, y, dx, dy ), the layout as a drag bar.
DragBarLayout(r, x, y, dx, dy) ==
    LET item == r.tabs[1]
        Put(ix, iy, idx, idy, db) ==
            [r EXCEPT !.tabs[1] =
                set_drag_bounds(control_recalc_sizes(item, ix, iy, idx, idy),
                                db[1], db[2], db[3], db[4])]
    IN  IF item.locked THEN Put(x, y, dx, dy, <<0, 0, 0, 0>>)
        ELSE IF item.style = "horizontal"
        THEN Put(x, y + DragBarSize, dx, dy - DragBarSize,
                 <<x, y, dx, DragBarSize>>)
        ELSE IF item.style = "vertical"
        THEN Put(x + DragBarSize, y, dx - DragBarSize, dy,
                 <<x, y, DragBarSize, dy>>)
        ELSE Put(x, y, dx, dy, <<0, 0, 0, 0>>)

\* DockRegion.recalc_sizes( x, y, dx, dy ) of a Region with visible items.
region_recalc_sizes(r, x, y, dx, dy) ==
    LET Sized(s) == [s EXCEPT !.bounds = <<x, y, Max(0, dx), Max(0, dy)>>,
                              !.laid = TRUE]
    IN  IF is_notebook(r.tabs)
        THEN NotebookLayout(Sized(r), x, y, Max(0, dx), Max(0, dy))
        ELSE DragBarLayout(Sized(r), x, y, Max(0, dx), Max(0, dy))

\* DockRegion.scroll( type, left_tab ).
scroll(r, type, to) ==
    LET left_tab == IF type = "SCROLL_LEFT"
                    THEN Min(r.left_tab + 1, r.max_tab)
                    ELSE IF type = "SCROLL_RIGHT" THEN Max(r.left_tab - 1, 0)
                    ELSE to
    IN  IF left_tab = r.left_tab THEN r
        ELSE IF left_tab >= Len(r.tabs) \/ r.left_tab >= Len(r.tabs)
        THEN [r EXCEPT !.failed = TRUE]
        ELSE [r EXCEPT
                !.left_tab = left_tab,
                !.tab_scroll_index = ScrollIndex(left_tab, r.max_tab),
                !.tabs = Shifted(r.tabs,
                                 r.tabs[left_tab + 1].drag_bounds[1]
                                 - r.tabs[r.left_tab + 1].drag_bounds[1])]

\* ---------------------------------------------------------- the machine

VARIABLES
    heap,       \* the DockItem objects, by identity
    root,       \* DockSizer._contents
    dc,         \* panel -> its _dock_control
    structure,  \* DockSizer._structure
    err,        \* an exception left the last handler
    nsets,      \* the number of SetStructure calls so far
    unsound,    \* the number of handlers started on a tree that is not sound
    installed,  \* what the last SetStructure call installed
    max_structure,  \* DockSizer._max_structure
    given,      \* the shape of the argument of the last SetContents call
    raised,     \* the last SetContents call raised TypeError
    ncontents,  \* the number of SetContents calls so far
    section,    \* the Section whose sizes are computed
    laid,       \* recalc_sizes has run on that Section
    dragging,   \* the item whose _dragging is set
    dock_info,  \* its _dock_info: the drop candidate it remembers
    ndrags,     \* the number of drags followed so far
    feature,    \* the features of one control: its modes, popup and timers
    nest,       \* the pre_drag calls that no post_drag has matched yet
    export,     \* the drag of a control out of the window
    bounds,     \* DockItem.bounds of the item that is probed
    hit,        \* the last call of is_at on it: the point and the answer
    edge,       \* the last call of dock_info_at on it, taken as a Section
    press,      \* the button press on it that is followed
    region      \* the Region whose tabs are laid out and scrolled

vars == <<heap, root, dc, structure, err, nsets, unsound, installed,
          max_structure, given, raised, ncontents, section, laid,
          dragging, dock_info, ndrags, feature, nest, export, bounds, hit,
          edge, press, region>>

\* The variables of the window and of its sizer.
window == <<heap, root, dc, structure, err, nsets, unsound, installed,
            max_structure>>

\* The variables of the layout of one Section.
sizes == <<section, laid>>

\* The variables of the calls of SetContents.
calls == <<given, raised, ncontents>>

\* The variables of a drag that is followed move by move.
pointer == <<dragging, dock_info, ndrags>>

\* The variables of the features of a control.
hover == <<feature, nest, export>>

\* The variables of the geometry of one item.
probe == <<bounds, hit, edge>>
geometry == <<probe, region, press>>

\* The variables the gestures on the window leave alone.
side == <<calls, sizes, pointer, hover, geometry>>

\* The machine state a handler starts from: no exception, the owner not told
\* that the window is empty, no layout done and none asked for.
Machine ==
    [heap |-> heap, root |-> root, dc |-> dc, err |-> FALSE, empty |-> FALSE,
     lay |-> FALSE, later |-> FALSE]

\* The objects nothing refers to any more are freed: the interpreter keeps
\* what the sizer and the panels refer to.
Live(m) ==
    Reach(m.heap, ({m.root} \cup {m.dc[w] : w \in Widgets}) \ {None})

\* The items below the nodes of 'stack' in the order a depth-first walk of
\* the contents meets them first.
RECURSIVE Preorder(_, _, _)
Preorder(h, stack, acc) ==
    IF stack = <<>> THEN acc
    ELSE IF Head(stack) \in SeqToSet(acc) THEN Preorder(h, Tail(stack), acc)
    ELSE Preorder(h, h[Head(stack)].contents \o Tail(stack),
                  Append(acc, Head(stack)))

RECURSIVE Ascending(_)
Ascending(S) ==
    IF S = {} THEN <<>>
    ELSE LET x == CHOOSE y \in S : \A z \in S : y <= z
         IN  <<x>> \o Ascending(S \ {x})

\* Object identity carries no order: the live objects are kept in the order
\* of a walk from the root, the objects outside the tree after them.
Order(m) ==
    LET walk == Preorder(m.heap, <<m.root>>, <<>>)
    IN  walk \o Ascending(Live(m) \ SeqToSet(walk))

\* The place of object n in that order; an object that was freed is None.
Place(order, n) == Index0(order, n) + 1

Relocate(m) ==
    LET order == Order(m)
    IN  [k \in Nodes |->
            IF k <= Len(order)
            THEN LET node == m.heap[order[k]]
                 IN  [node EXCEPT
                        !.parent = Place(order, node.parent),
                        !.contents = [i \in 1..Len(node.contents) |->
                                         Place(order, node.contents[i])]]
            ELSE FreeNode]

\* A sound tree: every item below the root lies in one place, its parent is
\* the group that holds it, no two controls below the root have one id, and
\* the objects outside the tree are controls without a parent.
Sound ==
    LET below  == Below(heap, {root})
        groups == {n \in below : heap[n].kind \in {"region", "section"}}
    IN  /\ \A g \in groups : \A i \in 1..Len(heap[g].contents) :
              /\ heap[heap[g].contents[i]].parent = g
              /\ \A j \in 1..Len(heap[g].contents) :
                    heap[g].contents[j] = heap[g].contents[i] => j = i
        /\ \A c, d \in below :
              heap[c].kind = "control" /\ heap[d].kind = "control"
              /\ heap[c].id = heap[d].id => c = d
        /\ \A n \in Nodes \ below :
              heap[n].kind = "free"
              \/ (heap[n].kind = "control" /\ heap[n].parent = None)

\* A handler may start: no exception has ended the run, the run has not
\* made its last SetStructure call, and it has not used up its handlers on a
\* tree that is not sound.
MayRun == ~err /\ nsets < MaxSets /\ (Sound \/ unsound < MaxUnsound)

\* The handlers other than MinMax start in a window that is not maximized.
MayStart == MayRun /\ max_structure = NoStructure /\ ~raised

\* The number of groups of the live tree.
NumGroups == Cardinality({n \in Nodes : heap[n].kind \in {"region", "section"}})

\* The layout a handler asked for with do_later runs when the handler is
\* over.
Deferred(m) ==
    IF m.later /\ ~m.err THEN [Layout(m) EXCEPT !.lay = m.lay, !.later = TRUE]
    ELSE m

\* The state a handler leaves.
Leave(m0) ==
    LET Left(m, order) ==
            /\ heap' = Relocate(m)
            /\ root' = Place(order, m.root)
            /\ dc' = [w \in Widgets |-> Place(order, m.dc[w])]
            /\ err' = m.err
            /\ unsound' = IF Sound THEN unsound ELSE unsound + 1
        Settled(m) == Left(m, Order(m))
    IN  Settled(Deferred(m0))

\* SetContents( [ c1 ] ) and the first layout of the window: the first panel
\* in a region of the root section, a row. The first panel has an on_close
\* callback, the second a dockable; the panels after the first are not part
\* of the window yet.
InitHeap ==
    LET h0 == [n \in Nodes |->
                 IF n = 1 THEN NewControl(1, TRUE, FALSE, FALSE)
                 ELSE IF n = 2 THEN NewControl(2, FALSE, TRUE, FALSE)
                 ELSE IF n \in Widgets THEN NewControl(n, FALSE, FALSE, FALSE)
                 ELSE FreeNode]
        m0 == [heap |-> h0, root |-> None, dc |-> [w \in Widgets |-> w],
               err |-> FALSE, empty |-> FALSE, lay |-> FALSE, later |-> FALSE]
        r1 == Alloc(m0)
        m1 == MkGroup(m0, r1, "region", TRUE, <<1>>)
        s  == Alloc(m1)
        m2 == MkGroup(m1, s, "section", TRUE, <<r1>>)
    IN  SetContents(m2, s)

InitWindow ==
    LET m == Layout(InitHeap)
    IN  /\ heap = Relocate(m)
        /\ root = Place(Order(m), m.root)
        /\ dc = [w \in Widgets |-> Place(Order(m), m.dc[w])]
        /\ structure = GetStructure(InitHeap)
        /\ err = FALSE
        /\ nsets = 0
        /\ unsound = 0
        /\ installed = "nothing"
        /\ max_structure = NoStructure
        /\ given = [shape |-> "list", items |-> <<[shape |-> "control"]>>]
        /\ raised = FALSE
        /\ ncontents = 1

\* A new item of a Section: the Region of one panel. calc_min gives a shown
\* item its minimum size; an item that is not shown has no size yet.
NewItem(min, visible, resizable) ==
    [min |-> min, visible |-> visible, resizable |-> resizable,
     width |-> IF visible THEN min ELSE -1,
     height |-> IF visible THEN min ELSE -1]

\* A new Section after DockSizer.CalcMin.
NewSection(is_row, contents) ==
    SectionCalcMin([is_row |-> is_row, contents |-> contents,
                    splitters |-> <<>>, width |-> -1, height |-> -1])

\* No call of is_at was made yet.
NoHit == [x |-> 0, y |-> 0, at |-> FALSE, called |-> FALSE]

\* An item no button was pressed on: a tab that is not locked.
NoPress == NewPress(FALSE, "tab")

\* No call of dock_info_at was made yet.
NoAnswer == [called |-> FALSE]

\* No drag is under way, and the item that is probed has the bounds of a new
\* DockItem.
InitPointer ==
    /\ dragging = None
    /\ dock_info = no_dock_info
    /\ ndrags = 0
    /\ nest = [open |-> <<>>, before |-> FEATURE_NONE, ncalls |-> 0]
    /\ export = [phase |-> "idle", in_drag |-> FALSE, cursor |-> "sizing"]
    /\ bounds = <<0, 0, 0, 0>>
    /\ hit = NoHit
    /\ edge = NoAnswer
    /\ press = NoPress

Init ==
    /\ InitWindow
    /\ section = NewSection(TRUE, <<NewItem(1, TRUE, TRUE)>>)
    /\ laid = FALSE
    /\ InitPointer
    /\ region = NewRegion
    /\ feature = NewFeatures(FEATURE_NORMAL, TRUE, TRUE)

\* The controls of the window: the controls of the panels that are part of
\* the tree.
InWindow == {dc[w] : w \in {v \in Widgets : dc[v] # None /\ heap[dc[v]].parent # None}}

\* The controls with a panel that are not part of the window.
Outside == {dc[w] : w \in {v \in Widgets : dc[v] # None /\ heap[dc[v]].parent = None}}

\* The items drawn as a notebook tab.
Tabs ==
    {c \in ShownItems(Machine) :
        /\ KindOf(Machine, heap[c].parent) = "region"
        /\ IsNotebook(heap, heap[c].parent)}

\* The DockInfo values a caller of DockInfo.dock can pass for a control that
\* is not part of the window: what DockInfoAt answers, and the same places
\* as a DOCK_BAR.
Calls(m) ==
    LET at == DockInfoAt(m, TRUE) \cup DockInfoAt(m, FALSE)
    IN  at \cup {Info(DOCK_BAR, i.region, i.control) :
                    i \in {j \in at : j.kind = DOCK_TAB}}

\* A drag of a shown item, with or without Alt, that ends with the DockInfo
\* 'drop': mouse_down, mouse_move and mouse_up.
Drag(self, alt, drop) ==
    /\ MayStart
    /\ NumGroups <= MaxTreeGroups
    /\ Leave(Drop(Machine, Dragged(Machine, self, alt), drop))
    /\ UNCHANGED <<structure, nsets, installed, max_structure, side>>

\* The drop of a control that is not part of the window yet: DockInfo.dock
\* for a control without a parent.
DropExternal(c, info) ==
    /\ MayStart
    /\ NumGroups <= MaxTreeGroups
    /\ Leave(Dock(Machine, info, c))
    /\ UNCHANGED <<structure, nsets, installed, max_structure, side>>

\* DockControl.close(): the close button of a control of the window;
\* 'answer' is what its close callback returns.
CloseControl(c, answer) ==
    /\ MayStart
    /\ Leave(Close(Machine, c, answer, TRUE))
    /\ UNCHANGED <<structure, nsets, installed, max_structure, side>>

\* DockControl.show( visible ).
ShowControl(c, visible) ==
    /\ MayStart
    /\ Leave(Show(Machine, c, visible, TRUE))
    /\ UNCHANGED <<structure, nsets, installed, max_structure, side>>

\* DockItem.mouse_up on a tab without a drag: DockRegion.tab_clicked.
TabClick(c) ==
    /\ MayStart
    /\ Leave(TabClicked(Machine, heap[c].parent, c))
    /\ UNCHANGED <<structure, nsets, installed, max_structure, side>>

\* DockControl.activate().
ActivateControl(c) ==
    /\ MayStart
    /\ Leave(Activate(Machine, c, TRUE))
    /\ UNCHANGED <<structure, nsets, installed, max_structure, side>>

\* The number of items of a structure.
RECURSIVE StructSize(_)
RECURSIVE StructSizes(_)
StructSizes(ss) ==
    IF ss = <<>> THEN 0 ELSE StructSize(Head(ss)) + StructSizes(Tail(ss))

StructSize(st) ==
    IF st.kind \in {"region", "section"} THEN 1 + StructSizes(st.contents) ELSE 1

\* Whether the heap has room for the objects of the structure.
Fits(st) ==
    StructSize(st) + Cardinality(Nodes \ FreeSlots(heap)) < HeapSize

\* DockSizer.ResetStructure( window ): the saved structure is installed.
Reset ==
    /\ MayStart
    /\ NumGroups <= MaxTreeGroups
    /\ Fits(structure)
    /\ Leave(ResetStructure(Machine, structure))
    /\ structure' = GetStructure(Machine)
    /\ nsets' = nsets + 1
    /\ installed' = "saved"
    /\ UNCHANGED <<max_structure, side>>

\* DockSizer.SetStructure( window, DockSizer.GetStructure() ): the structure
\* of the window as it is.
RoundTrip ==
    /\ MayStart
    /\ NumGroups <= MaxTreeGroups
    /\ Fits(GetStructure(Machine))
    /\ Leave(SetStructure(Machine, GetStructure(Machine), "none"))
    /\ structure' = GetStructure(Machine)
    /\ nsets' = nsets + 1
    /\ installed' = "current"
    /\ UNCHANGED <<max_structure, side>>

\* DockSizer.MinMax( window, c ) on a window that is not maximized.
MaximizeControl(c) ==
    /\ MayRun
    /\ IsMaximizable(max_structure)
    /\ Leave(MinMax(Machine, max_structure, c))
    /\ max_structure' = GetStructure(Machine)
    /\ UNCHANGED <<structure, nsets, installed, side>>

\* DockSizer.MinMax( window, c ) on a maximized window: the recorded
\* structure is installed by SetStructure, which saves the current one.
RestoreControl(c) ==
    /\ MayRun
    /\ ~IsMaximizable(max_structure)
    /\ NumGroups <= MaxTreeGroups
    /\ Fits(max_structure)
    /\ Leave(MinMax(Machine, max_structure, c))
    /\ max_structure' = NoStructure
    /\ structure' = GetStructure(Machine)
    /\ nsets' = nsets + 1
    /\ installed' = "recorded"
    /\ UNCHANGED side

\* The sequences of at most k items of S.
SeqsUpTo(S, k) == UNION {[1..n -> S] : n \in 0..k}

\* The objects and values a caller can pass: the controls that have a panel,
\* the root group, and a value that is no DockItem, tuple or list.
Atoms ==
    {[shape |-> "control", node |-> dc[w]] : w \in {v \in Widgets : dc[v] # None}}
    \cup {[shape |-> "group", node |-> root], [shape |-> "other"]}

\* The tuples and lists nested in an argument.
Inner ==
    {[shape |-> sh, items |-> it] :
        sh \in {"tuple", "list"}, it \in SeqsUpTo(Atoms, MaxInner)}

\* The arguments of SetContents.
Args ==
    Atoms \cup {[shape |-> sh, items |-> it] :
                  sh \in {"tuple", "list"},
                  it \in SeqsUpTo(Atoms \cup Inner, MaxItems)}

\* The shape of an argument: its nesting and the classes of its objects.
RECURSIVE ShapeOf(_)
ShapeOf(a) ==
    IF a.shape \in {"tuple", "list"}
    THEN [shape |-> a.shape,
          items |-> [i \in 1..Len(a.items) |-> ShapeOf(a.items[i])]]
    ELSE [shape |-> a.shape]

\* DockSizer.SetContents( contents ) on the window.
SetContentsCall(contents) ==
    /\ MayStart
    /\ nsets = 0
    /\ ncontents < MaxContents
    /\ Leave(SetContentsOf(Machine, contents).m)
    /\ raised' = ~SetContentsOf(Machine, contents).ok
    /\ given' = ShapeOf(contents)
    /\ ncontents' = ncontents + 1
    /\ UNCHANGED <<geometry, structure, nsets, installed, max_structure, sizes, pointer,
                   hover>>

\* The items a Section is built from.
Items == {NewItem(min, visible, resizable) :
             min \in 1..MaxMin, visible \in BOOLEAN, resizable \in BOOLEAN}

InitSizes ==
    /\ InitWindow
    /\ \E is_row \in BOOLEAN, contents \in SeqsUpTo(Items, MaxChildren) :
          section = NewSection(is_row, contents)
    /\ laid = FALSE
    /\ InitPointer
    /\ region = NewRegion
    /\ feature = NewFeatures(FEATURE_NORMAL, TRUE, TRUE)

\* section.recalc_sizes( 0, 0, dx, dy ): one layout pass.
RecalcSizes(dx, dy) ==
    /\ section' = recalc_sizes(section, dx, dy)
    /\ laid' = TRUE
    /\ UNCHANGED <<geometry, window, calls, pointer, hover>>

NextSizes ==
    \E along \in 1..MaxExtent, across \in 1..MaxAcross :
        IF section.is_row THEN RecalcSizes(along, across)
        ELSE RecalcSizes(across, along)

\* The layout passes of one Section.
SpecSizes == InitSizes /\ [][NextSizes]_vars

\* DockItem.mouse_move of item 'self' with the button down, the pointer at a
\* place where DockSizer.DockInfoAt answers 'info': the first move of a drag
\* starts from no_dock_info, a move that does not change the DockInfo ends
\* early, and a move without Control tests the new DockInfo.
Remembered(self, info, control_down) ==
    LET cur_dock_info == IF dragging = None THEN no_dock_info ELSE dock_info
    IN  IF cur_dock_info = info \/ control_down THEN info
        ELSE Legal(Machine, self, info)

MouseMove(self, info, control_down) ==
    /\ MayStart
    /\ NumGroups <= MaxTreeGroups
    /\ ndrags < MaxDrags
    /\ dragging \in {None, self}
    /\ dragging' = self
    /\ dock_info' = Remembered(self, info, control_down)
    /\ UNCHANGED <<geometry, window, calls, sizes, ndrags, hover>>

\* DockItem.mouse_up of the item that is dragged: with Alt its group is
\* docked unless the target is within it, with Control the control the
\* handler of the window answers, else the item itself.
MouseUpOn(alt, control_down, copy) ==
    /\ dragging # None
    /\ LET control == IF alt THEN Dragged(Machine, dragging, TRUE)
                      ELSE IF control_down THEN copy
                      ELSE dragging
       IN  IF alt /\ Within(heap, dock_info.region, control, Fuel)
           THEN Leave(Machine)
           ELSE Leave(Drop(Machine, control, dock_info))
    /\ dragging' = None
    /\ dock_info' = no_dock_info
    /\ ndrags' = ndrags + 1
    /\ UNCHANGED <<geometry, structure, nsets, installed, max_structure, calls, sizes,
                   hover>>

NextMoves ==
    \/ \E self \in ShownItems(Machine), control_down \in BOOLEAN :
          \E info \in DockInfoAt(Machine, TRUE) \cup DockInfoAt(Machine, FALSE) :
              MouseMove(self, info, control_down)
    \/ \E alt, control_down \in BOOLEAN :
          \E copy \in IF control_down /\ ~alt THEN Outside ELSE {None} :
              MouseUpOn(alt, control_down, copy)

\* The drags of the items of the window, move by move.
SpecMoves == Init /\ [][NextMoves]_vars

\* The modes of a control no drag is over and no popup is shown for.
RestModes == {FEATURE_NONE, FEATURE_NORMAL, FEATURE_CHANGED, FEATURE_DISABLED,
              FEATURE_PRE_NORMAL}

\* The controls the calls start from: one without features is in mode
\* FEATURE_NONE, one whose features have a bitmap in FEATURE_NORMAL or
\* FEATURE_CHANGED, one whose features have none in FEATURE_DISABLED, and
\* one whose features are not drawn yet in FEATURE_PRE_NORMAL.
InitFeatures ==
    /\ InitWindow
    /\ section = NewSection(TRUE, <<NewItem(1, TRUE, TRUE)>>)
    /\ laid = FALSE
    /\ InitPointer
    /\ region = NewRegion
    /\ \E mode \in RestModes, visible \in BOOLEAN, bitmap \in BOOLEAN :
          /\ mode \in {FEATURE_NORMAL, FEATURE_CHANGED} => bitmap
          /\ mode \in {FEATURE_NONE, FEATURE_DISABLED} => ~bitmap
          /\ feature = NewFeatures(mode, visible, bitmap)

\* control.pre_drag( object, tag ).
PreDrag(tool, can_drop, tag) ==
    /\ nest.ncalls < MaxCalls
    /\ feature' = pre_drag(feature, tool, can_drop, tag)
    /\ nest' = [open |-> Append(nest.open, tag),
                before |-> IF nest.ncalls = 0 THEN feature.feature_mode
                           ELSE nest.before,
                ncalls |-> nest.ncalls + 1]
    /\ UNCHANGED <<geometry, window, calls, sizes, pointer, export>>

\* control.post_drag( tag ) after a pre_drag that has no post_drag yet.
PostDrag(tag) ==
    /\ nest.ncalls < MaxCalls
    /\ nest.open # <<>>
    /\ feature' = post_drag(feature, tag)
    /\ nest' = [nest EXCEPT !.open = Tail(@), !.ncalls = @ + 1]
    /\ UNCHANGED <<geometry, window, calls, sizes, pointer, export>>

NextTags ==
    \/ \E tool, can_drop \in BOOLEAN, tag \in {0, FEATURE_EXTERNAL_DRAG} :
          PreDrag(tool, can_drop, tag)
    \/ \E tag \in {0, FEATURE_EXTERNAL_DRAG} : PostDrag(tag)

\* The calls of pre_drag and post_drag on one control.
SpecTags == InitFeatures /\ [][NextTags]_vars

\* control.feature_activate( event, drag_object ) of a control on display:
\* the pointer is at exy, over the feature icon up to MaxXY and beside it
\* after that.
Hover(exy, drag, tool, can_drop) ==
    /\ feature.visible
    /\ Len(feature.timers) < MaxTimers
    /\ feature' = feature_activate(feature, exy, exy <= MaxXY, drag, tool,
                                   can_drop)
    /\ UNCHANGED <<geometry, window, calls, sizes, pointer, nest, export>>

\* control.reset_feature_popup(): the pointer has left the icon.
ResetPopup ==
    /\ feature' = reset_feature_popup(feature)
    /\ UNCHANGED <<geometry, window, calls, sizes, pointer, nest, export>>

\* The timer armed first calls control._feature_popup.
TimerFires ==
    /\ feature.timers # <<>>
    /\ feature' = feature_popup(feature)
    /\ UNCHANGED <<geometry, window, calls, sizes, pointer, nest, export>>

\* control.feature_bar_closed(): the popup is closed.
FeatureBarClosed ==
    /\ feature.popup
    /\ feature' = feature_bar_closed(feature)
    /\ UNCHANGED <<geometry, window, calls, sizes, pointer, nest, export>>

\* DockItem.mouse_move with a DockInfo of kind DOCK_EXPORT, up to the call
\* of the platform: the cursor is set and the window is marked as dragging.
ExportBegin ==
    /\ export.phase # "dragging"
    /\ export' = [phase |-> "dragging", in_drag |-> TRUE, cursor |-> "arrow"]
    /\ UNCHANGED <<geometry, window, calls, sizes, pointer, feature, nest>>

\* The platform call returns or raises, and the finally clause runs.
ExportEnd(outcome) ==
    /\ export.phase = "dragging"
    /\ export' = [export EXCEPT !.phase = outcome, !.in_drag = FALSE]
    /\ UNCHANGED <<geometry, window, calls, sizes, pointer, feature, nest>>

NextFeatures ==
    \/ \E exy \in 1..(MaxXY + 1), drag, tool, can_drop \in BOOLEAN :
          Hover(exy, drag, tool, can_drop)
    \/ ResetPopup
    \/ TimerFires
    \/ FeatureBarClosed
    \/ ExportBegin
    \/ \E outcome \in {"dropped", "cancelled", "raised"} : ExportEnd(outcome)

\* The hovers over the feature icon of one control, and the export drags.
SpecFeatures == InitFeatures /\ [][NextFeatures]_vars

\* A control of a window without features.
InitModes ==
    /\ InitWindow
    /\ section = NewSection(TRUE, <<NewItem(1, TRUE, TRUE)>>)
    /\ laid = FALSE
    /\ InitPointer
    /\ region = NewRegion
    /\ \E visible, attached \in BOOLEAN :
          feature = NewControlFeatures(visible, attached)

\* A feature class is registered, enabled ( state 1 ) or not.
AddFeature(state) ==
    /\ Len(feature.classes) < MaxFeatures
    /\ feature' = [feature EXCEPT !.classes = Append(@, state)]
    /\ UNCHANGED <<geometry, window, calls, sizes, pointer, nest, export>>

\* control.check_features().
CheckFeatures(new) ==
    /\ Len(new) = Len(feature.classes) - feature.num_features
    /\ feature' = check_features(feature, new)
    /\ UNCHANGED <<geometry, window, calls, sizes, pointer, nest, export>>

\* The bitmap of a feature of the control is set, or set to None.
SetBitmap(i, b) ==
    /\ i \in DOMAIN feature.features
    /\ feature' = WithFeatures(feature, [feature.features EXCEPT ![i] = b])
    /\ UNCHANGED <<geometry, window, calls, sizes, pointer, nest, export>>

\* A feature of the control sets 'feature_changed'.
FeatureChanged ==
    /\ feature.features # <<>>
    /\ feature' = [set_feature_mode_changed(feature) EXCEPT !.signalled = ~@]
    /\ UNCHANGED <<geometry, window, calls, sizes, pointer, nest, export>>

\* The control is drawn.
DrawTab ==
    /\ feature.visible
    /\ feature' = draw_tab(feature)
    /\ UNCHANGED <<geometry, window, calls, sizes, pointer, nest, export>>

\* control.reset_features().
ResetAll ==
    /\ feature' = reset_features(feature)
    /\ UNCHANGED <<geometry, window, calls, sizes, pointer, nest, export>>

NextModes ==
    \/ \E state \in {0, 1} : AddFeature(state)
    \/ \E n \in 0..MaxFeatures :
          \E new \in [1..n -> {"none", "icon", "plain"}] : CheckFeatures(new)
    \/ \E i \in 1..MaxFeatures, b \in BOOLEAN : SetBitmap(i, b)
    \/ FeatureChanged
    \/ DrawTab
    \/ ResetAll
    \/ \E tool, can_drop \in BOOLEAN, tag \in {0, FEATURE_EXTERNAL_DRAG} :
          nest.ncalls < MaxHovers /\ PreDrag(tool, can_drop, tag)
    \/ \E tag \in {0, FEATURE_EXTERNAL_DRAG} :
          nest.ncalls < MaxHovers /\ PostDrag(tag)

\* The features of one control from the first one on.
SpecModes == InitModes /\ [][NextModes]_vars

\* A Section of two or more resizable items, shown or hidden, before its
\* first layout.
InitSplit ==
    /\ InitWindow
    /\ \E is_row \in BOOLEAN, n \in 2..MaxPanes :
          \E shown \in [1..n -> BOOLEAN] :
              section = NewSplit(is_row,
                                 [i \in 1..n |-> NewPane(1, shown[i])])
    /\ laid = FALSE
    /\ InitPointer
    /\ region = NewRegion
    /\ feature = NewFeatures(FEATURE_NORMAL, TRUE, TRUE)

\* section.recalc_sizes( 0, 0, dx, dy ) with 'free' pixels along the axis
\* that the gutters do not take.
SplitLayout(free) ==
    /\ section.pressed = 0
    /\ section' = split_recalc_sizes(section,
                      (Len(VisiblePlaces(section.contents, 1)) - 1)
                          * Gutter(section.is_row) + free)
    /\ laid' = TRUE
    /\ UNCHANGED <<geometry, window, calls, pointer, hover>>

\* The Section is drawn.
SplitDraw ==
    /\ laid
    /\ section' = split_draw(section)
    /\ UNCHANGED <<geometry, window, calls, pointer, hover, laid>>

\* The button is pressed on the k-th splitter.
SplitterDown(k, p, in_hot) ==
    /\ section.pressed = 0
    /\ k \in DOMAIN section.splitters
    /\ section' = splitter_mouse_down(section, k, p, in_hot)
    /\ UNCHANGED <<geometry, window, calls, pointer, hover, laid>>

\* The pointer moves with the button down on a splitter.
SplitterMove(p) ==
    /\ section.pressed # 0
    /\ section' = splitter_mouse_move(section, section.pressed, p)
    /\ UNCHANGED <<geometry, window, calls, pointer, hover, laid>>

\* The button is released.
SplitterUp(in_hot, first_half) ==
    /\ section.pressed # 0
    /\ section' = splitter_mouse_up(section, section.pressed, in_hot,
                                    first_half)
    /\ UNCHANGED <<geometry, window, calls, pointer, hover, laid>>

NextSplit ==
    \/ \E free \in (-MaxShort)..MaxFree : SplitLayout(free)
    \/ SplitDraw
    \/ \E k \in 1..(MaxPanes - 1), p \in 0..MaxPointer, in_hot \in BOOLEAN :
          SplitterDown(k, p, in_hot)
    \/ \E p \in 0..MaxPointer : SplitterMove(p)
    \/ \E in_hot, first_half \in BOOLEAN : SplitterUp(in_hot, first_half)

\* The layouts of a Section and the presses, moves and releases of the
\* button on its splitters.
SpecSplit == InitSplit /\ [][NextSplit]_vars

\* A Region without contents.
InitNotebook ==
    /\ InitWindow
    /\ section = NewSection(TRUE, <<NewItem(1, TRUE, TRUE)>>)
    /\ laid = FALSE
    /\ InitPointer
    /\ region = NewNotebook(<<>>)
    /\ feature = NewFeatures(FEATURE_NORMAL, TRUE, TRUE)

\* region.add( control ) of a control, or of a Region with two or more
\* controls.
NotebookAdd(item) ==
    /\ Len(region.contents) < MaxNotebook
    /\ region' = contents_items_changed(region, Append(region.contents, item))
    /\ UNCHANGED <<window, calls, sizes, pointer, hover, probe, press>>

\* region.remove( item ) of the i-th item, as far as the contents go.
NotebookRemove(i) ==
    /\ i \in DOMAIN region.contents
    /\ region' = contents_items_changed(region, Delete0(region.contents, i - 1))
    /\ UNCHANGED <<window, calls, sizes, pointer, hover, probe, press>>

\* control.show( visible ) of a control of the Region.
NotebookShow(i, visible) ==
    /\ i \in DOMAIN region.contents
    /\ ~region.contents[i].group
    /\ region.contents[i].visible # visible
    /\ region' = child_show(region, i, visible)
    /\ UNCHANGED <<window, calls, sizes, pointer, hover, probe, press>>

\* control.show( visible ) of a control of a Region that is an item of the
\* Region.
NestedShow(i, j, visible) ==
    /\ i \in DOMAIN region.contents
    /\ j \in DOMAIN region.contents[i].items
    /\ region.contents[i].items[j].visible # visible
    /\ region' = nested_show(region, i, j, visible)
    /\ UNCHANGED <<window, calls, sizes, pointer, hover, probe, press>>

\* control.style = style.
NotebookStyle(i, style) ==
    /\ i \in DOMAIN region.contents
    /\ ~region.contents[i].group
    /\ region.contents[i].style # style
    /\ region' = child_style(region, i, style)
    /\ UNCHANGED <<window, calls, sizes, pointer, hover, probe, press>>

\* region.toggle_lock().
NotebookToggleLock ==
    /\ region' = region_toggle_lock(region)
    /\ UNCHANGED <<window, calls, sizes, pointer, hover, probe, press>>

\* region.is_notebook is read, and item.is_notebook of the items that are
\* Regions, as a layout and a draw do.
ReadIsNotebook ==
    /\ region' =
          [region EXCEPT
             !.cache = get_is_notebook(@, region.contents),
             !.contents = [i \in 1..Len(@) |->
                 IF @[i].group
                 THEN [@[i] EXCEPT !.cache =
                          get_is_notebook(@, [j \in 1..Len(region.contents[i].items) |->
                              NewChild(region.contents[i].items[j].visible,
                                       region.contents[i].items[j].style)])]
                 ELSE @[i]]]
    /\ UNCHANGED <<window, calls, sizes, pointer, hover, probe, press>>

\* The controls a notebook that is docked as a tab can hold: tabs.
Nested == {[visible |-> v, style |-> "tab"] : v \in BOOLEAN}

NextNotebook ==
    \/ \E visible \in BOOLEAN, style \in {"tab", "horizontal"} :
          NotebookAdd(NewChild(visible, style))
    \/ \E n \in 2..MaxNested : \E items \in [1..n -> Nested] :
          NotebookAdd(NewChildRegion(items))
    \/ \E i \in 1..MaxNotebook : NotebookRemove(i)
    \/ \E i \in 1..MaxNotebook, visible \in BOOLEAN : NotebookShow(i, visible)
    \/ \E i \in 1..MaxNotebook, j \in 1..MaxNested, visible \in BOOLEAN :
          NestedShow(i, j, visible)
    \/ \E i \in 1..MaxNotebook, style \in {"tab", "horizontal"} :
          NotebookStyle(i, style)
    \/ NotebookToggleLock
    \/ ReadIsNotebook

\* The changes of the items of one Region and the reads of is_notebook.
SpecNotebook == InitNotebook /\ [][NextNotebook]_vars

\* A root Section that is a row of two Regions, each with one resizable
\* control that has no size but its minimum size.
InitRow ==
    /\ InitWindow
    /\ \E a, b \in (MaxWidth - 2)..MaxWidth :
          section = NewSection(TRUE, <<NewItem(a, TRUE, TRUE),
                                       NewItem(b, TRUE, TRUE)>>)
    /\ laid = FALSE
    /\ InitPointer
    /\ region = NewRegion
    /\ feature = NewFeatures(FEATURE_NORMAL, TRUE, TRUE)

\* The first layout pass of the row: section.recalc_sizes( 0, 0, dx, dy ).
FirstLayout(dx, dy) ==
    /\ ~laid
    /\ RecalcSizes(dx, dy)

NextRow ==
    \E dx \in (MaxTarget - 10)..MaxTarget, dy \in 1..MaxAcross :
        FirstLayout(dx, dy)

\* The first layout of a row of two Regions.
SpecRow == InitRow /\ [][NextRow]_vars

\* item.recalc_sizes( x, y, dx, dy ) of the item that is probed: its bounds
\* are the rectangle it is given, with no negative width or height.
RecalcBounds(x, y, dx, dy) ==
    /\ bounds' = <<x, y, Max(0, dx), Max(0, dy)>>
    /\ hit' = NoHit
    /\ edge' = NoAnswer
    /\ UNCHANGED <<window, calls, sizes, pointer, hover, region, press>>

\* item.is_at( x, y ).
IsAt(x, y) ==
    /\ hit' = [x |-> x, y |-> y, at |-> is_at(bounds, x, y), called |-> TRUE]
    /\ UNCHANGED <<window, calls, sizes, pointer, hover, bounds, edge,
                   region, press>>

NextHits ==
    \/ \E x, y \in 0..MaxOrigin, dx, dy \in (-1)..MaxSide :
          RecalcBounds(x, y, dx, dy)
    \/ \E x, y \in 0..(MaxOrigin + MaxSide + 1) : IsAt(x, y)

\* The layouts of one item and the tests of a point against its bounds.
SpecHits == Init /\ [][NextHits]_vars

\* DockSizer.DockInfoAt( x, y, size, is_control ): the dock_info_at of the
\* item that is probed, taken as the root Section, which is forced to answer,
\* for a drag of an item that is as wide and as high as the largest Section.
ProbeDockInfoAt(x, y, found) ==
    /\ edge' = [called |-> TRUE, x |-> x, y |-> y, found |-> found,
                  force |-> TRUE,
                  info |-> section_dock_info_at(bounds, x, y,
                                                <<MaxSide, MaxSide, MaxSide>>,
                                                found, TRUE)]
    /\ UNCHANGED <<window, calls, sizes, pointer, hover, bounds, hit, region,
                   press>>

\* The coordinates tried along an axis on which the Section starts at 'from'
\* and is 'size' long: the ones next to its two edges, inside and outside,
\* and the ones at the end of the margin.
Tried(from, size) ==
    {from + o : o \in (-MaxNear)..MaxNear}
    \cup {from + size - 1 + o : o \in (-MaxNear)..MaxNear}
    \cup {from - ExportMargin, from - ExportMargin - 1,
          from + size - 1 + ExportMargin, from + size + ExportMargin}

NextEdges ==
    \/ \E o \in {0, MaxOrigin}, dx, dy \in 1..MaxSide :
          RecalcBounds(o, o, dx, dy)
    \/ \E x \in Tried(bounds[1], bounds[3]), y \in Tried(bounds[2], bounds[4]),
          found \in {"nothing", "splitter", "item"} :
          ProbeDockInfoAt(x, y, found)

\* The layouts of the root Section and the calls of its dock_info_at.
SpecEdges == Init /\ [][NextEdges]_vars

\* sizer.DockInfoAt( x, y, size, is_control ) of a sizer whose contents, if
\* it has any, is the Section that is probed.
SizerProbe(contents, x, y, found) ==
    /\ edge' = [called |-> TRUE, x |-> x, y |-> y, found |-> found,
                force |-> TRUE, root |-> TRUE, contents |-> contents,
                info |-> SizerDockInfoAt(contents, bounds, x, y,
                                         <<MaxSide, MaxSide, MaxSide>>, found)]
    /\ UNCHANGED <<window, calls, sizes, pointer, hover, bounds, hit, region,
                   press>>

\* item.dock_info_at( x, y, size, is_control ) of the Section that is
\* probed, called by the Section it is an item of.
ItemProbe(x, y, found, visible) ==
    /\ edge' = [called |-> TRUE, x |-> x, y |-> y, found |-> found,
                force |-> FALSE, root |-> FALSE, contents |-> TRUE,
                info |-> dock_info_at(bounds, x, y,
                                      <<MaxSide, MaxSide, MaxSide>>, found,
                                      FALSE, visible)]
    /\ UNCHANGED <<window, calls, sizes, pointer, hover, bounds, hit, region,
                   press>>

NextProbes ==
    \/ \E o \in {0, MaxOrigin}, dx, dy \in 1..MaxSide :
          RecalcBounds(o, o, dx, dy)
    \/ \E x \in Tried(bounds[1], bounds[3]), y \in Tried(bounds[2], bounds[4]),
          found \in {"nothing", "bar", "splitter", "item"},
          contents \in BOOLEAN :
          ~edge.called /\ SizerProbe(contents, x, y, found)
    \/ \E x \in Tried(bounds[1], bounds[3]), y \in Tried(bounds[2], bounds[4]),
          found \in {"nothing", "bar", "splitter", "item"},
          visible \in {"None", "True", "False"} :
          ~edge.called /\ ItemProbe(x, y, found, visible)

\* The calls of DockSizer.DockInfoAt and of the dock_info_at of a Section
\* that is an item of another one, one call after each layout.
SpecProbes == Init /\ [][NextProbes]_vars

\* The traits 'locked' and 'style' of the item are set while no button is
\* pressed on it.
SetTraits(locked, style) ==
    /\ ~press.down
    /\ press' = NewPress(locked, style)
    /\ UNCHANGED <<window, calls, sizes, pointer, hover, probe, region>>

\* The left button is pressed on the item.
MouseDown(x, y, in_close) ==
    /\ ~press.down
    /\ press' = mouse_down(press, x, y, in_close)
    /\ UNCHANGED <<window, calls, sizes, pointer, hover, probe, region>>

\* The pointer moves while the button is pressed on the item.
MouseMoveTo(x, y) ==
    /\ press.down
    /\ press' = mouse_move(press, x, y)
    /\ UNCHANGED <<window, calls, sizes, pointer, hover, probe, region>>

\* The button is released.
MouseUpAt(in_close, on_tab) ==
    /\ press.down
    /\ press' = mouse_up(press, in_close, on_tab)
    /\ UNCHANGED <<window, calls, sizes, pointer, hover, probe, region>>

NextPress ==
    \/ \E locked \in BOOLEAN, style \in {"horizontal", "tab", "fixed"} :
          SetTraits(locked, style)
    \/ \E x, y \in 0..MaxPress, in_close \in BOOLEAN : MouseDown(x, y, in_close)
    \/ \E x, y \in 0..MaxPress : MouseMoveTo(x, y)
    \/ \E in_close, on_tab \in BOOLEAN : MouseUpAt(in_close, on_tab)

\* The presses, moves and releases of the left button on one item.
SpecPress == Init /\ [][NextPress]_vars

\* DockImages loads the images of the tab scroll buttons, sdx wide.
LoadImages(sdx) ==
    /\ region.tab_scroller_dx = 0
    /\ region' = [region EXCEPT !.tab_scroller_dx = sdx]
    /\ UNCHANGED <<window, calls, sizes, pointer, hover, probe, press>>

\* region.add( control ) for a control that is shown: a new tab at the end.
\* The Region is laid out before its tabs are used again.
AddTab(text, style, locked) ==
    /\ region.tab_scroller_dx > 0
    /\ ~region.failed
    /\ Len(region.tabs) < MaxTabs
    /\ region' = [region EXCEPT !.tabs = Append(@, NewTab(text, style, locked)),
                                !.laid = FALSE]
    /\ UNCHANGED <<window, calls, sizes, pointer, hover, probe, press>>

\* region.recalc_sizes( x, y, dx, dy ): a layout pass.
RecalcRegion(x, y, dx, dy) ==
    /\ ~region.failed
    /\ Len(region.tabs) > 0
    /\ region' = region_recalc_sizes(region, x, y, dx, dy)
    /\ UNCHANGED <<window, calls, sizes, pointer, hover, probe, press>>

\* region.scroll( type, to ): a click on a scroll button of the notebook, or
\* make_active_tab_visible for the tab 'to'.
Scroll(type, to) ==
    /\ ~region.failed
    /\ region.laid
    /\ is_notebook(region.tabs)
    /\ region.tab_scroll_index >= 0
    /\ region' = scroll(region, type, to)
    /\ UNCHANGED <<window, calls, sizes, pointer, hover, probe, press>>

NextTabs ==
    \/ \E sdx \in (MaxScroller - 1)..MaxScroller : LoadImages(sdx)
    \/ \E text \in 0..MaxText, style \in {"tab", "horizontal", "vertical"},
          locked \in BOOLEAN :
          /\ Len(region.tabs) > 0 => style = "tab" /\ ~locked
          /\ AddTab(text, style, locked)
    \/ \E o \in {0, MaxOrigin}, d \in (MaxRegion - 16)..MaxRegion :
          RecalcRegion(o, o, d, d)
    \/ \E type \in {"SCROLL_LEFT", "SCROLL_RIGHT"} : Scroll(type, 0)
    \/ \E to \in 0..region.max_tab : Scroll("SCROLL_TO", to)

\* The layout passes and the tab scrolls of one Region.
SpecTabs == Init /\ [][NextTabs]_vars

NextContents == \E contents \in Args : SetContentsCall(contents)

\* The calls of SetContents on the window the first call built.
SpecContents == Init /\ [][NextContents]_vars

Next ==
    \/ \E self \in ShownItems(Machine), alt \in BOOLEAN :
          \E drop \in Drops(Machine, self, alt) : Drag(self, alt, drop)
    \/ \E c \in Outside : \E info \in Calls(Machine) : DropExternal(c, info)
    \/ \E c \in InWindow, answer \in BOOLEAN : CloseControl(c, answer)
    \/ \E c \in InWindow, visible \in BOOLEAN : ShowControl(c, visible)
    \/ \E c \in Tabs : TabClick(c)
    \/ \E c \in InWindow : ActivateControl(c)
    \/ Reset
    \/ RoundTrip
    \/ \E c \in InWindow : MaximizeControl(c)
    \/ \E c \in InWindow : RestoreControl(c)

Spec == Init /\ [][Next]_vars

\* ----------------------------------------------------------------- claims

\* The groups of the window: the groups below the root.
Groups == {n \in Below(heap, {root}) : heap[n].kind \in {"region", "section"}}

\* C2: after any sequence of handlers that ended without an exception, every
\* item in the contents of a group of the window has that group as its
\* parent.
C2_ParentIsHolder ==
    ~err => \A g \in Groups : \A i \in 1..Len(heap[g].contents) :
                heap[heap[g].contents[i]].parent = g

\* C3: in a sound tree that handlers without an exception have left, no
\* Section other than the root has fewer than two children.
C3_SectionsFlattened ==
    ~err /\ Sound => \A s \in Groups :
                heap[s].kind = "section" /\ s # root
                => Len(heap[s].contents) >= 2

\* The Regions of the window that hold something.
FullRegions ==
    {r \in Groups : heap[r].kind = "region" /\ Len(heap[r].contents) > 0}

\* C4: the active index of every Region that holds a visible item is the
\* index of one of its items. (A Region whose items are all hidden is left
\* out: _update_active gives it the index -1.)
C4_ActiveIsIndex ==
    ~err => \A r \in FullRegions :
                IsVisible(heap, r)
                => 0 <= heap[r].active /\ heap[r].active < Len(heap[r].contents)

\* The groups of the tree of machine state m that hold item x.
HoldersOf(m, x) ==
    {g \in Below(m.heap, {m.root}) :
        /\ m.heap[g].kind \in {"region", "section"}
        /\ x \in SeqToSet(m.heap[g].contents)}

\* What C5 says of a dock of 'control' that led from the tree of the state to
\* machine state m: when the parent of the control changed, its previous
\* parent does not hold it any more and exactly one group holds it.
Detached(m, control) ==
    LET old == heap[control].parent
        new == m.heap[control].parent
    IN  ~m.err /\ old # new
        => /\ old # None => control \notin SeqToSet(m.heap[old].contents)
           /\ Cardinality(HoldersOf(m, control)) = 1

\* Whether a gesture that docks may start in this state.
MayDock == MayStart /\ NumGroups <= MaxTreeGroups

\* C5: in every state, each dock a gesture can commit there (a drag of a
\* shown item, with or without Alt, or the dock of a control from outside,
\* with a DockInfo of kind DOCK_TOP .. DOCK_BAR) leaves the docked control
\* detached from its previous parent and in exactly one group.
C5_DockDetaches ==
    MayDock =>
        /\ \A self \in ShownItems(Machine), alt \in BOOLEAN :
              \A drop \in Drops(Machine, self, alt) :
                 drop.kind < DOCK_NONE /\ Dragged(Machine, self, alt) # None
                 => Detached(Drop(Machine, Dragged(Machine, self, alt), drop),
                             Dragged(Machine, self, alt))
        /\ \A c \in Outside : \A info \in Calls(Machine) :
              info.kind < DOCK_NONE => Detached(Dock(Machine, info, c), c)

\* The docks of kind DOCK_TABADD of a control A onto the tab of a control B
\* that a gesture can commit in this state: a drag of A without Alt or the
\* dock of A from outside. Each is the pair of A and the DockInfo.
TabAdds ==
    {g \in ({[a |-> self, info |-> drop] :
                self \in {x \in ShownItems(Machine) : heap[x].kind = "control"},
                drop \in UNION {Drops(Machine, x, FALSE) :
                                   x \in ShownItems(Machine)}}
            \cup {[a |-> c, info |-> i] : c \in Outside, i \in Calls(Machine)}) :
        /\ g.info.kind = DOCK_TABADD
        /\ KindOf(Machine, g.info.control) = "control"
        /\ g.a \in Outside \/ g.info \in Drops(Machine, g.a, FALSE)}

\* What C6 says of the machine state m a DOCK_TABADD of A onto B left: one
\* Region of the tree holds both A and B and its active index is the index
\* of A.
TabbedTogether(m, A, B) ==
    \E r \in Below(m.heap, {m.root}) :
        /\ m.heap[r].kind = "region"
        /\ {A, B} \subseteq SeqToSet(m.heap[r].contents)
        /\ m.heap[r].active = Index0(m.heap[r].contents, A)

\* C6: every DOCK_TABADD of a control onto the tab of a control
\* that ends without an exception leaves the two in one Region whose active
\* index is the index of the docked control.
C6_TabAddJoins ==
    MayDock => \A g \in TabAdds :
        LET m == Dock(Machine, g.info, g.a)
        IN  ~m.err => TabbedTogether(m, g.a, g.info.control)

\* The controls that have a panel.
Open == InWindow \cup Outside

\* C7: close() of a control whose callback in effect (on_close, or without
\* one the dockable's dockable_close) returns False changes nothing: the
\* objects, the root and the panels are as before (so the control keeps its
\* panel, its parent, its place and its features), no layout is done or
\* asked for, the owner is not told of an empty window and no exception is
\* raised.
C7_RefusedCloseChangesNothing ==
    \A c \in Open, layout \in BOOLEAN :
        heap[c].on_close \/ heap[c].dockable
        => LET m == Close(Machine, c, FALSE, layout)
           IN  /\ m.heap = heap /\ m.root = root /\ m.dc = dc
               /\ ~m.lay /\ ~m.later /\ ~m.empty /\ ~m.err

\* A window that holds a control with an on_close callback and a control
\* with only a dockable, both with their features installed, each of which
\* refuses its close.
C7_Witness ==
    \E c, d \in InWindow :
        /\ heap[c].on_close /\ heap[c].features
        /\ ~heap[d].on_close /\ heap[d].dockable /\ heap[d].features
        /\ Close(Machine, c, FALSE, TRUE) = Machine
        /\ Close(Machine, d, FALSE, TRUE) = Machine
        /\ Close(Machine, d, TRUE, TRUE) # Machine

\* C8: once every handler so far has ended without an exception, no group
\* of the window holds a control without a panel.
C8_NoClosedControlInTree ==
    ~err => \A g \in Groups : \A i \in 1..Len(heap[g].contents) :
                heap[heap[g].contents[i]].kind = "control"
                => heap[heap[g].contents[i]].control # None

\* The controls of the window, in the order of get_controls.
TreeControls == SeqToSet(GetControls(heap, root, FALSE))

\* C9: in every state whose tree is sound (every item in one place, below
\* its parent), SetStructure( window, GetStructure() ) ends without an
\* exception and leaves the structure the window had before the call (the
\* nesting of Sections and Regions, is_row, the order of the items, the
\* active indices, the visible flags and the stored sizes), and every
\* control of the window is bound to the panel it had: the panel of its id,
\* which refers back to it.
C9_RoundTrip ==
    ~err /\ Sound /\ NumGroups <= MaxTreeGroups
    => LET m == SetStructure(Machine, GetStructure(Machine), "none")
       IN  /\ ~m.err
           /\ GetStructure(m) = GetStructure(Machine)
           /\ \A w \in Widgets :
                 (dc[w] # None /\ dc[w] \in TreeControls)
                 => /\ m.dc[w] # None
                    /\ m.dc[w] \in SeqToSet(GetControls(m.heap, m.root, FALSE))
                    /\ m.heap[m.dc[w]].control = w
                    /\ m.heap[m.dc[w]].id = w

\* A round trip has been made on a sound tree that holds a notebook whose
\* second tab is the active one and a hidden control.
C9_Witness ==
    /\ installed = "current" /\ ~err /\ unsound = 0
    /\ GetStructure(Machine) = structure
    /\ \E r \in Groups : /\ heap[r].kind = "region"
                         /\ Len(heap[r].contents) = 2
                         /\ heap[r].active = 1
    /\ \E c \in TreeControls : ~heap[c].visible

\* The ids of the controls of a structure.
RECURSIVE StructIds(_)
StructIds(st) ==
    IF st.kind = "control" THEN {st.id}
    ELSE IF st.kind \in {"region", "section"}
    THEN UNION {StructIds(st.contents[i]) : i \in 1..Len(st.contents)}
    ELSE {}

\* The places of the control x in the tree of m.
PlacesOf(m, x) ==
    LET cs == GetControls(m.heap, m.root, FALSE)
    IN  {i \in 1..Len(cs) : cs[i] = x}

\* What C10 says of SetStructure( window, st ) without a handler in the
\* current state.
KeepsControls(st) ==
    LET m      == SetStructure(Machine, st, "none")
        live   == GetControls(heap, root, FALSE)
        extras == SelectSeq(live, LAMBDA c : heap[c].id \notin StructIds(st))
        kids   == m.heap[m.root].contents
    IN  /\ ~m.err
        /\ \A i \in 1..Len(live) :
              heap[live[i]].id \in StructIds(st)
              => \E n \in Nodes :
                    /\ Cardinality(PlacesOf(m, n)) = 1
                    /\ m.heap[n].id = heap[live[i]].id
                    /\ m.heap[n].control = heap[live[i]].control
                    /\ heap[live[i]].control # None
                       => m.dc[heap[live[i]].control] = n
        /\ \A i \in 1..Len(extras) :
              Cardinality(PlacesOf(m, extras[i])) = 1
        /\ extras # <<>>
           => /\ Len(kids) > 0
              /\ m.heap[kids[Len(kids)]].kind = "region"
              /\ m.heap[kids[Len(kids)]].contents = extras
              /\ \A i \in 1..Len(extras) :
                    m.heap[extras[i]].parent = kids[Len(kids)]

\* C10: SetStructure without a handler, called with the saved structure or
\* with the structure of the window, ends without an exception; every
\* control of the window whose id the structure holds is bound to the one
\* control of the new tree with that id, and the controls of the window
\* whose id the structure does not hold are, in their order, the contents of
\* one Region that is the last item of the new root, each of them at one
\* place of the new tree.
C10_NoControlLostOrDuplicated ==
    ~err /\ ~Cyclic(heap, root) /\ NumGroups <= MaxTreeGroups
    => \A st \in {structure, GetStructure(Machine)} :
          Fits(st) => KeepsControls(st)

\* What C11 says of SetStructure( window, st, handler ) in the current
\* state: it ends without an exception, and the tree it installs holds no
\* control without a panel and no control whose id is an id of the
\* structure that no control of the window had.
DropsUnresolved(st, handler) ==
    LET m    == SetStructure(Machine, st, handler)
        live == {heap[c].id : c \in TreeControls}
        cs   == SeqToSet(GetControls(m.heap, m.root, FALSE))
    IN  /\ ~m.err
        /\ \A c \in cs : /\ m.heap[c].control # None
                         /\ m.heap[c].id \notin (StructIds(st) \ live)

\* C11: SetStructure with the saved structure or the structure of the
\* window, without a handler or with the handler of the base class, drops
\* every control of the structure that is not resolved and raises nothing:
\* every control of the tree it installs has a panel.
C11_UnresolvedIdsDropped ==
    ~err /\ ~Cyclic(heap, root) /\ NumGroups <= MaxTreeGroups
    => \A st \in {structure, GetStructure(Machine)},
          handler \in {"none", "base"} :
          Fits(st) => DropsUnresolved(st, handler)

\* On a sound tree both hold: the controls are kept, each at one place, and
\* the unresolved ids are dropped.
SetStructureOnSoundTree ==
    ~err /\ Sound /\ NumGroups <= MaxTreeGroups
    => \A st \in {structure, GetStructure(Machine)} :
          Fits(st) => /\ KeepsControls(st)
                      /\ DropsUnresolved(st, "none")
                      /\ DropsUnresolved(st, "base")

\* What C12 says of two MinMax calls for the control c, the first in the
\* current state: the first call records a structure, so that the window is
\* not maximizable any more, and leaves c the only visible control of the
\* tree; the second call ends without an exception in a window that is
\* maximizable again, and the structure of the window (the shape of the
\* tree and the visible flags) is the one recorded.
Toggles(c) ==
    LET rec == GetStructure(Machine)
        m1  == MinMax(Machine, NoStructure, c)
        m2  == MinMax(m1, rec, c)
    IN  /\ ~IsMaximizable(rec)
        /\ ~m1.err
        /\ {x \in SeqToSet(GetControls(m1.heap, m1.root, FALSE)) :
                m1.heap[x].visible} = {c}
        /\ ~m2.err
        /\ GetStructure(m2) = rec

\* C12: in a window that is not maximized, MinMax( c ) for a visible
\* control c of the window leaves c the only visible control and the window
\* not maximizable, and the next MinMax call restores the visible flags and
\* the shape of the tree as they were.
C12_MinMaxToggles ==
    ~err /\ IsMaximizable(max_structure) /\ ~Cyclic(heap, root)
         /\ NumGroups <= MaxTreeGroups /\ Fits(GetStructure(Machine))
    => \A c \in InWindow : heap[c].visible => Toggles(c)

\* On a sound tree the two calls do what C12 says.
MinMaxOnSoundTree ==
    ~err /\ IsMaximizable(max_structure) /\ Sound
         /\ NumGroups <= MaxTreeGroups /\ Fits(GetStructure(Machine))
    => \A c \in InWindow : heap[c].visible => Toggles(c)

\* Whether a value that is no DockGroup, tuple, list or DockControl is the
\* argument or is nested in it.
RECURSIVE HasUnsupported(_)
HasUnsupported(a) ==
    \/ a.shape = "other"
    \/ /\ a.shape \in {"tuple", "list"}
       /\ \E i \in 1..Len(a.items) : HasUnsupported(a.items[i])

\* C13 as stated: a call of SetContents raises TypeError exactly when its
\* argument, or a value nested in it, is no DockGroup, tuple, list or
\* DockControl.
C13_TypeErrorIffUnsupported ==
    ncontents > 1 /\ ~err => (raised <=> HasUnsupported(given))

\* Whether SetContents refuses the argument: it is no DockGroup, tuple, list
\* or DockControl, or nested in it a tuple holds a value that is no tuple,
\* list or DockItem, or a list holds a value that is no tuple, list or
\* DockControl (a DockGroup in a list is refused).
RECURSIVE Refused(_)
Refused(a) ==
    \/ a.shape = "other"
    \/ /\ a.shape \in {"tuple", "list"}
       /\ \E i \in 1..Len(a.items) :
             \/ a.shape = "list" /\ a.items[i].shape = "group"
             \/ Refused(a.items[i])

\* The structure of the window as it is.
StructureNow == GetStructure(Machine)

\* C13, amended: a call of SetContents raises TypeError exactly when it
\* refuses its argument, and a call that raises it leaves the saved
\* structure and the structure of the window as they were.
C13_TypeErrorIffRefused ==
    /\ [](ncontents > 1 /\ ~err => (raised <=> Refused(given)))
    /\ [][raised' => /\ structure' = structure
                     /\ err' \/ StructureNow' = StructureNow]_vars

\* A call of SetContents has raised TypeError for a list whose first item, a
\* control, was wrapped in a region before the second item was refused.
C13_Witness ==
    /\ raised /\ ~err /\ ncontents = 2
    /\ given.shape = "list" /\ Len(given.items) = 2
    /\ given.items[1].shape = "control"
    /\ given.items[2].shape = "other"

\* The visible items of the Section and its extent along its axis.
Shown == VisiblePlaces(section.contents, 1)
Target == IF section.is_row THEN section.width ELSE section.height

\* C1: after recalc_sizes of a Section with a resizable control, the extents
\* of its visible items along its axis and one gutter for every adjacent pair
\* of them add up to the extent the Section was given.
C1_ExtentsAddUp ==
    laid /\ Resizable(section)
        => Extents(section.contents, Shown, section.is_row)
           + (Len(Shown) - 1) * Gutter(section.is_row) = Target

\* C14 as stated: after a layout pass of a Section, the number of its
\* splitters is the number of its items less one, and zero without items.
C14_SplittersPerItem ==
    laid => Len(section.splitters) = Max(0, Len(section.contents) - 1)

\* C14: after a layout pass of a Section with a resizable control, there is
\* one splitter between every two adjacent visible items; after a layout pass
\* of a Section without one, there is no splitter.
C14_SplittersPerVisibleItem ==
    laid => Len(section.splitters) =
                IF Resizable(section) THEN Max(0, Len(Shown) - 1) ELSE 0

\* A laid out Section of three items, one of them hidden, and one splitter.
C14_Witness ==
    /\ laid
    /\ Resizable(section)
    /\ Len(section.contents) = 3
    /\ Len(Shown) = 2
    /\ Len(section.splitters) = 1

\* C15: whenever the close of a control removes the last item of the root
\* Section, the owner of the window is told that the window is empty.
C15_EmptyWindowNotified ==
    ~err /\ Len(heap[root].contents) > 0
        => \A c \in InWindow :
              LET m == Close(Machine, c, TRUE, TRUE)
              IN  ~m.err /\ Len(m.heap[m.root].contents) = 0 => m.empty

\* The DockInfo values that dock the item onto its own Region while the
\* Region holds nothing else.
OntoOwnRegion(self) ==
    {info \in DockInfoAt(Machine, TRUE) \cup DockInfoAt(Machine, FALSE) :
        /\ info.kind < DOCK_NONE
        /\ info.region # None
        /\ info.region = heap[self].parent
        /\ Len(heap[info.region].contents) <= 1}

\* C16: when the pointer of a drag without Control is where the drop would
\* dock the item onto its own Region, and the Region holds nothing else, the
\* item remembers no_dock_info and the release of the button changes nothing.
C16_DropOnOwnRegionRejected ==
    ~err /\ dragging # None
        => \A info \in OntoOwnRegion(dragging) :
              /\ Remembered(dragging, info, FALSE) = no_dock_info
              /\ Drop(Machine, dragging,
                      Remembered(dragging, info, FALSE)).heap = heap

\* C17: when the platform call of an export drag has returned or raised,
\* the window is not marked as dragging, the cursor is the arrow and the
\* control has no external-drag tag left.
C17_ExportTornDown ==
    export.phase \in {"dropped", "cancelled", "raised"}
        => /\ ~export.in_drag
           /\ export.cursor = "arrow"
           /\ feature.saved = Unset
              \/ BitAnd(feature.saved, FEATURE_EXTERNAL_DRAG) = 0

\* C18: a timer shows the popup only while the hover that armed it is
\* pending at the place it was armed at, and a control has at most one
\* timer pending.
C18_PopupOnlyForPendingHover ==
    /\ ~feature.stale
    /\ Len(feature.timers) <= 1

\* C20: whatever the calls of pre_drag and post_drag with tag 0 and with
\* FEATURE_EXTERNAL_DRAG, feature_mode is one of the eight modes, and once
\* every pre_drag has its post_drag, feature_mode is what it was before the
\* first pre_drag and drop_features is empty.
C20_PrePostCompose ==
    /\ feature.feature_mode \in FeatureModes
    /\ nest.ncalls > 0 /\ nest.open = <<>>
           => /\ feature.feature_mode = nest.before
              /\ feature.drop_features = 0

\* C19: a show that changes the visibility of a control of the tree, or a
\* set_name that changes its name, with a layout asked for, lays nothing out
\* itself and leaves a layout to be done later; two of them in a row leave
\* one layout to be done.
C19_LayoutIsDeferred ==
    ~err => \A c \in TreeControls :
               LET shown   == Show(Machine, c, ~heap[c].visible, TRUE)
                   renamed == set_name(Machine, c, TRUE, TRUE)
                   both    == set_name(shown, c, TRUE, TRUE)
               IN  /\ ~shown.lay /\ shown.later
                   /\ ~renamed.lay /\ renamed.later
                   /\ ~both.lay /\ both.later

\* C21 as stated: is_at( x, y ) is true exactly when the point lies in the
\* bounds of the item, the far edges left out; at the origin of the bounds it
\* is true, and at the far end of the first row of the bounds it is false.
C21_HalfOpenAndOrigin ==
    hit.called
        => /\ hit.at <=> /\ bounds[1] <= hit.x /\ hit.x < bounds[1] + bounds[3]
                         /\ bounds[2] <= hit.y /\ hit.y < bounds[2] + bounds[4]
           /\ hit.x = bounds[1] /\ hit.y = bounds[2] => hit.at
           /\ hit.x = bounds[1] + bounds[3] /\ hit.y = bounds[2] => ~hit.at

\* C21: is_at( x, y ) is true exactly when the point lies in the bounds of the
\* item, the far edges left out; at the origin of the bounds it is true when
\* the bounds have a width and a height and false when they have none, and at
\* the far end of the first row of the bounds it is false.
C21_HalfOpen ==
    hit.called
        => /\ hit.at <=> /\ bounds[1] <= hit.x /\ hit.x < bounds[1] + bounds[3]
                         /\ bounds[2] <= hit.y /\ hit.y < bounds[2] + bounds[4]
           /\ hit.x = bounds[1] /\ hit.y = bounds[2]
              => (hit.at <=> bounds[3] > 0 /\ bounds[4] > 0)
           /\ hit.x = bounds[1] + bounds[3] /\ hit.y = bounds[2] => ~hit.at

\* The point before the far corner of an item that does not lie at the
\* origin of the window is at the item.
C21_Witness ==
    /\ hit.called /\ hit.at
    /\ bounds[1] > 0 /\ bounds[2] > 0
    /\ hit.x = bounds[1] + bounds[3] - 1
    /\ hit.y = bounds[2] + bounds[4] - 1

\* The widths of the two Regions of the row, and whether the row is the one
\* of the example: two controls of width 100 laid out into a width of 250.
WidthA == section.contents[1].width
WidthB == section.contents[2].width
RowOfExample ==
    /\ laid
    /\ section.contents[1].min = 100 /\ section.contents[2].min = 100
    /\ section.width = 250

\* C22 as stated: the row of the example is laid out with one splitter of
\* size 9, so that the two widths and 9 add up to 250, and the widths are 120
\* and 121.
C22_RowWithSplitterOf9 ==
    RowOfExample => /\ WidthA + WidthB + 9 = 250
                    /\ WidthA = 120 /\ WidthB = 121

\* C22: the first layout of a row of two Regions leaves one splitter of size
\* SplitterSizeV, which is 12; the two widths and the splitter add up to the
\* width of the row; the first Region gets its share of the change, rounded,
\* and the last one what remains; the row of the example is split 119 / 119.
C22_RowWithSplitterOf12 ==
    laid => LET a0    == section.contents[1].min
                b0    == section.contents[2].min
                delta == section.width - SplitterSizeV - (a0 + b0)
            IN  /\ Len(section.splitters) = 1
                /\ WidthA + WidthB + SplitterSizeV = section.width
                /\ WidthA = a0 + Round(a0 * delta, a0 + b0)
                /\ WidthB = b0 + delta - Round(a0 * delta, a0 + b0)
                /\ RowOfExample => WidthA = 119 /\ WidthB = 119

\* The row of the example, laid out: 119 + 119 + 12 = 250.
C22_Witness ==
    /\ RowOfExample
    /\ WidthA + WidthB + 12 = 250
    /\ section.splitters[1].at = WidthA

\* The rectangle of tab i of the Region, and whether the Region has been laid
\* out as a notebook.
TabRect(i) == region.tabs[i].drag_bounds
TabsLaid == region.laid /\ ~region.failed /\ is_notebook(region.tabs)

\* The left edge and the right edge of the union of the tab rectangles.
UnionLeft ==
    CHOOSE a \in {TabRect(i)[1] : i \in 1..Len(region.tabs)} :
        \A i \in 1..Len(region.tabs) : a <= TabRect(i)[1]
UnionRight ==
    CHOOSE a \in {TabRect(i)[1] + TabRect(i)[3] : i \in 1..Len(region.tabs)} :
        \A i \in 1..Len(region.tabs) : a >= TabRect(i)[1] + TabRect(i)[3]

\* C23: after a layout pass or a tab scroll of a notebook, a tab rectangle
\* reaches at most one pixel into the next one, and while the tabs scroll the
\* union of the tab rectangles is no wider than the Region (the widest
\* reading of the width the notebook has for its tabs).
C23_TabsFitNotebook ==
    TabsLaid
        => /\ \A i \in 1..(Len(region.tabs) - 1) :
                 TabRect(i)[1] + TabRect(i)[3] - TabRect(i + 1)[1] <= 1
           /\ region.tab_scroll_index >= 0
                 => UnionRight - UnionLeft <= region.bounds[3]

\* What holds of the tabs of a notebook: a tab rectangle reaches at most one
\* pixel into the next one, no tab rectangle passes the right edge of the
\* Region, and while the tabs scroll the leftmost tab starts where the tabs
\* are clipped and, as long as the leftmost tab is the first tab, the union
\* of the tab rectangles is no wider than the Region.
TabsOfNotebook ==
    TabsLaid
        => /\ \A i \in 1..(Len(region.tabs) - 1) :
                 TabRect(i)[1] + TabRect(i)[3] - TabRect(i + 1)[1] <= 1
           /\ UnionRight <= region.bounds[1] + region.bounds[3]
           /\ region.tab_scroll_index >= 0
                 => /\ TabRect(region.left_tab + 1)[1] = region.tab_clip_bounds[1]
                    /\ region.left_tab = 0
                          => UnionRight - UnionLeft <= region.bounds[3]

\* C25 as stated: after a layout pass or a tab scroll, the drag rectangle of
\* every tab and bar lies within the bounds of its item.
C25_DragBoundsWithinBounds ==
    region.laid /\ ~region.failed
        => \A i \in 1..Len(region.tabs) :
              LET b  == region.tabs[i].bounds
                  db == region.tabs[i].drag_bounds
              IN  /\ b[1] <= db[1] /\ db[1] + db[3] <= b[1] + b[3]
                  /\ b[2] <= db[2] /\ db[2] + db[4] <= b[2] + b[4]

\* C25: after a layout pass or a tab scroll, the drag rectangle of every tab
\* and bar ends no further right and no further down than the bounds of its
\* item; a tab of a notebook lies above the bounds of its item, not within
\* them.
C25_DragBoundsClippedAtFarEdges ==
    region.laid /\ ~region.failed
        => \A i \in 1..Len(region.tabs) :
              LET b  == region.tabs[i].bounds
                  db == region.tabs[i].drag_bounds
              IN  /\ db[1] + db[3] <= b[1] + b[3]
                  /\ db[2] + db[4] <= b[2] + b[4]
                  /\ is_notebook(region.tabs)
                        => db[4] = TabHeight /\ db[2] + db[4] <= b[2]

\* A notebook that was scrolled, with a tab that is clipped at the right
\* edge of the bounds of its item.
C25_Witness ==
    /\ TabsLaid
    /\ region.left_tab > 0
    /\ \E i \in 1..Len(region.tabs) :
          /\ TabRect(i)[3] < region.tabs[i].tab_width
          /\ TabRect(i)[1] + TabRect(i)[3]
                = region.tabs[i].bounds[1] + region.tabs[i].bounds[3]

\* The distance of the point of the last dock_info_at call from the edge of
\* the Section a DockInfo kind names: from its first or its last column, or
\* its first or its last row.
EdgeDistance(kind) ==
    IF kind = DOCK_LEFT THEN Abs(edge.x - bounds[1])
    ELSE IF kind = DOCK_RIGHT THEN Abs(edge.x - (bounds[1] + bounds[3] - 1))
    ELSE IF kind = DOCK_TOP THEN Abs(edge.y - bounds[2])
    ELSE Abs(edge.y - (bounds[2] + bounds[4] - 1))

Edges == {DOCK_LEFT, DOCK_RIGHT, DOCK_TOP, DOCK_BOTTOM}

\* The point of the last call is no more than the margin away from the
\* Section, on every side.
InMargin ==
    /\ bounds[1] - ExportMargin <= edge.x
    /\ edge.x <= bounds[1] + bounds[3] - 1 + ExportMargin
    /\ bounds[2] - ExportMargin <= edge.y
    /\ edge.y <= bounds[2] + bounds[4] - 1 + ExportMargin

\* C24: a forced dock_info_at of the root Section at a point within the
\* margin where nothing else is found answers the kind of an edge no other
\* edge is nearer to the point than; the preview rectangle is no deeper than
\* two thirds of the Section on the axis of that edge; and at a point two
\* pixels left of the left edge to which no other edge is nearer, the kind is
\* DOCK_LEFT.
C24_NearestEdge ==
    edge.called /\ edge.force /\ edge.found = "nothing" /\ InMargin
        => /\ edge.info.kind \in Edges
           /\ \A k \in Edges :
                 EdgeDistance(edge.info.kind) <= EdgeDistance(k)
           /\ edge.info.kind \in {DOCK_LEFT, DOCK_RIGHT}
                 => 3 * edge.info.bounds[3] <= 2 * bounds[3]
           /\ edge.info.kind \in {DOCK_TOP, DOCK_BOTTOM}
                 => 3 * edge.info.bounds[4] <= 2 * bounds[4]
           /\ ( /\ edge.x = bounds[1] - 2
                /\ \A k \in Edges : EdgeDistance(k) >= 2 )
                 => edge.info.kind = DOCK_LEFT

\* A forced call at a point two pixels left of the left edge of a Section,
\* to which no other edge is nearer, has answered DOCK_LEFT with a preview
\* that is narrower than the dragged item.
C24_Witness ==
    /\ edge.called /\ edge.force /\ edge.found = "nothing"
    /\ bounds[3] = MaxSide /\ bounds[4] > 0
    /\ edge.x = bounds[1] - 2
    /\ \A k \in Edges : EdgeDistance(k) >= 2
    /\ edge.info.kind = DOCK_LEFT
    /\ edge.info.bounds[3] = (2 * MaxSide) \div 3

\* The visible Regions a layout pass reaches.
VisibleRegions ==
    {n \in LaidOutF(heap, <<root>>, Fuel) :
        heap[n].kind = "region" /\ IsVisible(heap, n)}

\* After a layout pass, whatever panels were shown before it, Region r has
\* a child at index active, and of its controls with a panel exactly that
\* one has its panel shown.
ActiveShown(r) ==
    \A before \in [Widgets -> BOOLEAN] :
        LET shown == PanelsShown(Machine, before)
        IN  /\ 0 <= heap[r].active /\ heap[r].active < Len(heap[r].contents)
            /\ \A i \in 1..Len(heap[r].contents) :
                  LET c == heap[r].contents[i]
                  IN  heap[c].kind = "control" /\ heap[c].control # None
                         => (shown[heap[c].control] <=> i - 1 = heap[r].active)

\* C26: in every tree the window reaches by docks, closes, activations and
\* show/hide calls, a layout pass leaves every visible Region with exactly
\* the child at index active shown and every other child hidden.
C26_ActivePanelShown ==
    ~err /\ ~Cyclic(heap, root) => \A r \in VisibleRegions : ActiveShown(r)

\* The same in the trees in which every item lies in one place.
C26_OnSoundTrees ==
    ~err /\ Sound /\ ~Cyclic(heap, root)
        => \A r \in VisibleRegions : ActiveShown(r)

\* The places of item x in the contents of the groups below the root.
Occurrences(x) ==
    {<<g, i>> \in Below(heap, {root}) \X (1..HeapSize) :
        i <= Len(heap[g].contents) /\ heap[g].contents[i] = x}

\* C27: whatever drags (with or without Alt, onto items and onto the edges
\* of the window), closes and removes have happened, the structure below
\* the root is a tree: every item below the root lies in one place of one
\* group, the root lies in none, and no group lies below itself.
C27_StructureIsTree ==
    ~err => /\ \A x \in Below(heap, {root}) \ {root} :
                  Cardinality(Occurrences(x)) = 1
            /\ Occurrences(root) = {}
            /\ ~Cyclic(heap, root)

\* The control that is the active child of Region r in machine state m, or
\* None.
ActiveControl(m, r) ==
    LET c0 == m.heap[r].contents
        a  == m.heap[r].active
    IN  IF 0 <= a /\ a < Len(c0) /\ m.heap[c0[a + 1]].kind = "control"
        THEN c0[a + 1] ELSE None

\* The calls the delegates are to get when the active child of r has changed
\* from one control to another between m0 and m1.
TabActivatedDue(m0, m1, r) ==
    LET was == ActiveControl(m0, r)
        now == ActiveControl(m1, r)
    IN  (IF m1.heap[was].dockable
         THEN <<[control |-> was, activated |-> FALSE]>> ELSE <<>>)
        \o (IF m1.heap[now].dockable
            THEN <<[control |-> now, activated |-> TRUE]>> ELSE <<>>)

\* The machine states one call of activate or tab_clicked on a control of
\* Region r leads to from the current state.
Activations(r) ==
    {Activate(Machine, heap[r].contents[i], FALSE) :
        i \in 1..Len(heap[r].contents)}
    \cup {TabClicked(Machine, r, heap[r].contents[i]) :
             i \in 1..Len(heap[r].contents)}

\* The machine states one call of r.add for a control that is not part of
\* the window, or of r.remove for an item of r, leads to.
AddsAndRemoves(r) ==
    {RegionAdd(Machine, r, c, before, None, TRUE) :
        c \in Outside, before \in SeqToSet(heap[r].contents) \cup {None}}
    \cup {Remove(Machine, r, heap[r].contents[i], Fuel) :
             i \in 1..Len(heap[r].contents)}

\* In the calls that lead to the states of S, a change of the active child
\* of r from one control to another has made the calls that are due.
NotifiedIn(S, r) ==
    \A m \in S :
        /\ ~m.err
        /\ ActiveControl(Machine, r) # None
        /\ ActiveControl(m, r) # None
        /\ ActiveControl(m, r) # ActiveControl(Machine, r)
        => TabActivated(Machine, m, r) = TabActivatedDue(Machine, m, r)

\* C28: when activate, a tab click, add or remove changes the active child
\* of a Region from one control to another, the delegate of the control
\* that was active, if it has one, gets tab-activated(false), then the
\* delegate of the control that is active, if it has one, gets
\* tab-activated(true), and no other call is made.
C28_TabActivatedOnChange ==
    ~err /\ Sound
        => \A r \in FullRegions :
              NotifiedIn(Activations(r) \cup AddsAndRemoves(r), r)

\* The same for activate and tab clicks only.
C28_OnActivate ==
    ~err /\ Sound => \A r \in FullRegions : NotifiedIn(Activations(r), r)

\* The contents C29 gives Region r after r.remove of its item at index i
\* in machine state m: the item is deleted, and when one child is left that
\* is a group of one item, the contents of that child take its place.
ContentsClaimed(m, r, i) ==
    LET d == Delete0(m.heap[r].contents, i)
    IN  IF Len(d) = 1 /\ IsGroup(m, d[1]) /\ Len(m.heap[d[1]].contents) = 1
        THEN m.heap[d[1]].contents
        ELSE d

\* The contents of Region r after r.remove of its item at index i when the
\* test for a group of one item is made on the item that is removed: such an
\* item is not deleted, its one item takes its place, or the contents of
\* that item when it is a Region; any other item is deleted.
ContentsSpliced(m, r, i) ==
    LET c0   == m.heap[r].contents
        item == c0[i + 1]
    IN  IF IsGroup(m, item) /\ Len(m.heap[item].contents) = 1
        THEN (IF KindOf(m, m.heap[item].contents[1]) = "region"
              THEN Splice0(c0, i, m.heap[m.heap[item].contents[1]].contents)
              ELSE Replace0(c0, i, m.heap[item].contents[1]))
        ELSE Delete0(c0, i)

\* In machine state m1, which r.remove has led to from m, the parent of
\* Region r has been asked to remove r exactly when r is empty, or holds
\* one item and the parent is a Region.
ParentAsked(m, m1, r) ==
    LET p == m.heap[r].parent
        n == Len(m1.heap[r].contents)
    IN  p # None
        => ( Index0(m1.heap[p].contents, r) < 0
               <=> (n = 0 \/ (n = 1 /\ m.heap[p].kind = "region")) )

\* The calls of DockRegion.remove the current state can make: a machine
\* state, a Region and the index at which remove finds the item. They are
\* r.remove( item ) for every item of a Region of the window, and the call
\* self.parent.remove( self ) of DockSection.remove for a Section of two
\* items that lies in a Region and has just deleted one of them.
Removals ==
    {<<Machine, r, i>> : <<r, i>> \in
        {ri \in FullRegions \X (0..(HeapSize - 1)) :
            /\ ri[2] < Len(heap[ri[1]].contents)
            /\ Index0(heap[ri[1]].contents,
                      heap[ri[1]].contents[ri[2] + 1]) = ri[2]}}
    \cup
    {<<SetItems(Machine, s, Delete0(heap[s].contents, j), <<>>),
       heap[s].parent, Index0(heap[heap[s].parent].contents, s)>> :
        <<s, j>> \in
        {sj \in Groups \X {0, 1} :
            /\ heap[sj[1]].kind = "section"
            /\ Len(heap[sj[1]].contents) = 2
            /\ KindOf(Machine, heap[sj[1]].parent) = "region"
            /\ Index0(heap[heap[sj[1]].parent].contents, sj[1]) >= 0}}

\* What r.remove of the item at index i leads to from machine state m.
AfterRemove(m, r, i) == Remove(m, r, m.heap[r].contents[i + 1], Fuel)

\* C29 as it is stated: in a sound tree r.remove( item ) deletes the item, splices the
\* contents of a child that is left alone and is a group of one item, and
\* asks the parent to remove an empty Region, or a Region of one item
\* inside a Region.
C29_RemoveDeletesThenSplices ==
    ~err /\ Sound
        => \A c \in Removals :
              ~AfterRemove(c[1], c[2], c[3]).err
                 => /\ AfterRemove(c[1], c[2], c[3]).heap[c[2]].contents
                          = ContentsClaimed(c[1], c[2], c[3])
                    /\ ParentAsked(c[1], AfterRemove(c[1], c[2], c[3]), c[2])

\* C29: in a sound tree r.remove( item ) replaces an item that is a group of
\* one item by that item (by its contents when it is a Region) and deletes
\* any other item, and asks the parent to remove an empty Region, or a
\* Region of one item inside a Region.
C29_RemoveSplicesRemoved ==
    ~err /\ Sound
        => \A c \in Removals :
              ~AfterRemove(c[1], c[2], c[3]).err
                 => /\ AfterRemove(c[1], c[2], c[3]).heap[c[2]].contents
                          = ContentsSpliced(c[1], c[2], c[3])
                    /\ ParentAsked(c[1], AfterRemove(c[1], c[2], c[3]), c[2])

\* In a sound tree a Section of two Regions lies in a Region and has just
\* deleted one of them: the Region is asked to remove the Section, and the
\* controls of the other Region take the place of the Section.
C29_Witness ==
    /\ ~err /\ Sound
    /\ \E c \in Removals :
          LET item == c[1].heap[c[2]].contents[c[3] + 1]
          IN  /\ c[1].heap[item].kind = "section"
              /\ Len(c[1].heap[item].contents) = 1
              /\ KindOf(c[1], c[1].heap[item].contents[1]) = "region"
              /\ ~AfterRemove(c[1], c[2], c[3]).err
              /\ AfterRemove(c[1], c[2], c[3]).heap[c[2]].contents
                    = c[1].heap[c[1].heap[item].contents[1]].contents
              /\ Len(AfterRemove(c[1], c[2], c[3]).heap[c[2]].contents) > 0

\* What the current state can pass to s.add as the control: a control that
\* is not part of the window, or a control or a Region of the window that
\* does not hold Section s.
Addable(s) ==
    Outside
    \cup {x \in Below(heap, {root}) :
            /\ heap[x].kind \in {"control", "region"}
            /\ s \notin Below(heap, {x})}

\* The Region a call of DockSection.add adds in machine state m, which the
\* call has led to: the Region that was passed, or else the Region that
\* holds what was passed and nothing else and was no object before.
NewRegionOf(m, control) ==
    LET made == {n \in Nodes : /\ heap[n].kind = "free"
                               /\ m.heap[n].kind = "region"
                               /\ m.heap[n].contents = <<control>>}
    IN  IF heap[control].kind = "region" THEN control
        ELSE IF made = {} THEN None
        ELSE CHOOSE n \in made : TRUE

\* What C30 says of the call s.add( control, region, kind ) that has led to
\* machine state m.
AddedAsClaimed(m, s, control, target, kind) ==
    LET c0  == heap[s].contents
        c1  == m.heap[s].contents
        i   == Index0(c0, target)
        nr  == NewRegionOf(m, control)
        Two(ns) ==
            /\ heap[ns].kind = "free"
            /\ m.heap[ns].kind = "section"
            /\ m.heap[ns].is_row = ~heap[s].is_row
            /\ m.heap[ns].contents
                  = (IF kind \in {DOCK_LEFT, DOCK_TOP} THEN <<nr, target>>
                     ELSE <<target, nr>>)
    IN  /\ nr # None
        /\ IF Perpendicular(heap[s].is_row, kind)
           THEN /\ Len(c1) = Len(c0)
                /\ \A j \in 1..Len(c0) : j # i + 1 => c1[j] = c0[j]
                /\ Two(c1[i + 1])
           ELSE /\ Index0(c1, nr) >= 0
                /\ Index0(c1, target)
                      = (IF kind \in {DOCK_LEFT, DOCK_TOP}
                         THEN Index0(c1, nr) + 1 ELSE Index0(c1, nr) - 1)
                /\ Delete0(c1, Index0(c1, nr))
                      = (IF Index0(c0, nr) >= 0
                         THEN Delete0(c0, Index0(c0, nr)) ELSE c0)

\* C30: in a sound tree s.add( control, region, kind ) with a kind across
\* the axis of Section s replaces the target in its place by a new Section
\* of the other orientation that holds the new Region and the target in the
\* order of the kind, and leaves the number of children of s as it was; with
\* a kind along the axis it makes the new Region the sibling next to the
\* target, before it for LEFT and TOP and after it for RIGHT and BOTTOM.
C30_SectionAddSplitsOrInserts ==
    ~err /\ Sound
         => \A s \in Groups :
               heap[s].kind = "section"
                  => \A control \in Addable(s) :
                       \A target \in SeqToSet(heap[s].contents) \ {control} :
                         \A kind \in {DOCK_LEFT, DOCK_RIGHT, DOCK_TOP,
                                      DOCK_BOTTOM} :
                            \A m \in {SectionAdd(Machine, s, control, target,
                                                 kind)} :
                               ~m.err
                                  => AddedAsClaimed(m, s, control, target, kind)

\* In a sound tree a row Section of two items can add a control below its
\* second item, which a new column Section replaces, and can add its first
\* Region to the right of its second item, which moves it there; both calls
\* do what C30 says.
C30_Witness ==
    /\ ~err /\ Sound
    /\ \E s \in Groups :
          /\ heap[s].kind = "section" /\ heap[s].is_row
          /\ Len(heap[s].contents) = 2
          /\ heap[heap[s].contents[1]].kind = "region"
          /\ heap[heap[s].contents[2]].kind = "region"
          /\ \E c \in Addable(s) :
                \A m \in {SectionAdd(Machine, s, c, heap[s].contents[2],
                                     DOCK_BOTTOM)} :
                   /\ ~m.err
                   /\ AddedAsClaimed(m, s, c, heap[s].contents[2], DOCK_BOTTOM)
                   /\ m.heap[m.heap[s].contents[2]].contents[1]
                         = heap[s].contents[2]
          /\ \A m \in {SectionAdd(Machine, s, heap[s].contents[1],
                                   heap[s].contents[2], DOCK_RIGHT)} :
                /\ ~m.err
                /\ AddedAsClaimed(m, s, heap[s].contents[1],
                                  heap[s].contents[2], DOCK_RIGHT)
                /\ m.heap[s].contents
                      = <<heap[s].contents[2], heap[s].contents[1]>>

\* What mouse_up with Alt held leads to at the end of a drag of item 'self'
\* over the place of DockInfo 'info' when 'group' is what it moves: nothing
\* changes when the move is not legal or the target Region is the group or
\* lies below it, and else the group is docked at the target.
AltDocks(self, info, group) ==
    LET legal == Legal(Machine, self, info)
    IN  IF legal.kind >= DOCK_NONE \/ Within(heap, legal.region, group, Fuel)
        THEN Machine
        ELSE IF group = None THEN Raise(Machine)
        ELSE Dock(Machine, legal, group)

\* The DockInfo values a pointer position can give in this state.
PointerInfos == DockInfoAt(Machine, TRUE) \cup DockInfoAt(Machine, FALSE)

\* The group an Alt-drag of item 'self' moves: its Region when that is a
\* notebook, and the parent of its Region when it is not.
GroupMoved(self) ==
    IF IsNotebook(heap, heap[self].parent) THEN heap[self].parent
    ELSE heap[heap[self].parent].parent

\* C31 as it is stated: a drag that ends with Alt held docks the Region of
\* the dragged item, and changes nothing when the target lies inside that
\* Region.
C31_AltDocksRegion ==
    MayDock => \A self \in ShownItems(Machine), info \in PointerInfos :
                  MouseUp(Machine, self, info, TRUE)
                     = AltDocks(self, info, heap[self].parent)

\* C31: a drag that ends with Alt held docks the Region of the dragged item
\* when the Region is a notebook and the parent of the Region when it is
\* not, and changes nothing when the target Region is that group or lies
\* below it.
C31_AltDocksNotebookOrParent ==
    MayDock => \A self \in ShownItems(Machine), info \in PointerInfos :
                  MouseUp(Machine, self, info, TRUE)
                     = AltDocks(self, info, GroupMoved(self))

\* In a sound tree an Alt-drag of the one item of a Region that is no
\* notebook onto another Region has docked the Section that holds it, which
\* is not the root.
C31_Witness ==
    /\ MayDock /\ Sound
    /\ \E self \in ShownItems(Machine), info \in PointerInfos :
          /\ ~IsNotebook(heap, heap[self].parent)
          /\ GroupMoved(self) # root
          /\ Legal(Machine, self, info).kind < DOCK_NONE
          /\ ~Within(heap, info.region, GroupMoved(self), Fuel)
          /\ ~MouseUp(Machine, self, info, TRUE).err
          /\ MouseUp(Machine, self, info, TRUE)
                = Dock(Machine, info, GroupMoved(self))
          /\ MouseUp(Machine, self, info, TRUE) # Machine

\* An Alt-drag of a tab of a notebook onto another tab of the notebook, a
\* legal move, has changed nothing.
C31_Abandoned ==
    /\ MayDock /\ Sound
    /\ \E self \in ShownItems(Machine), info \in PointerInfos :
          /\ IsNotebook(heap, heap[self].parent)
          /\ Legal(Machine, self, info).kind < DOCK_NONE
          /\ info.region = heap[self].parent
          /\ MouseUp(Machine, self, info, TRUE) = Machine

\* The pixels the pointer is away from the place of the press, those across
\* and those down added up.
Moved(to) == Abs(press.xy[1] - to[1]) + Abs(press.xy[2] - to[2])

\* C32: while the button is pressed on an item, the item is dragging only
\* when the pointer was 3 pixels or more away from the place of the press
\* when the drag started, no close was pending, and the item is not locked
\* and its style is not fixed; and a release has committed a dock only when
\* the press had become a drag.
C32_DragAfterThreshold ==
    /\ press.down /\ press.dragging
          => /\ Moved(press.started) >= 3
             /\ ~press.closing /\ ~press.locked /\ press.style # "fixed"
    /\ press.result = "dock" => press.dragging /\ ~press.closing

\* A press has become a drag two pixels across and one down from its place
\* and the release has committed the dock.
C32_Witness ==
    /\ ~press.down /\ press.result = "dock"
    /\ press.started = <<press.xy[1] + 2, press.xy[2] + 1>>

\* What one step does to the feature mode of the control: a control without
\* features that gets one goes to FEATURE_PRE_NORMAL, a draw takes it from
\* there to FEATURE_NORMAL or FEATURE_DISABLED, a feature_changed event
\* leaves it there, and no step takes a control with features to
\* FEATURE_NONE.
ModeStep ==
    /\ feature.features = <<>> /\ feature'.features # <<>>
          /\ feature.feature_mode = FEATURE_NONE
          => feature'.feature_mode = FEATURE_PRE_NORMAL
    /\ feature'.drawn # feature.drawn
          /\ feature.feature_mode = FEATURE_PRE_NORMAL
          => feature'.feature_mode =
                 IF \E i \in DOMAIN feature.features : feature.features[i]
                 THEN FEATURE_NORMAL ELSE FEATURE_DISABLED
    /\ feature'.signalled # feature.signalled
          /\ feature.feature_mode = FEATURE_PRE_NORMAL
          => feature'.feature_mode = FEATURE_PRE_NORMAL
    /\ feature'.features # <<>> => feature'.feature_mode # FEATURE_NONE

\* C33: the feature mode of a control is FEATURE_NONE until a feature is
\* installed and FEATURE_PRE_NORMAL from the first install on; the next draw
\* resolves it to FEATURE_NORMAL when a feature of the control has a bitmap
\* and to FEATURE_DISABLED when none has; a feature_changed event in
\* FEATURE_PRE_NORMAL leaves the mode alone, and a control with features is
\* never in FEATURE_NONE.
C33_FeatureModeResolved ==
    /\ [](feature.features = <<>> /\ feature.num_features = 0
             /\ feature.classes = <<>>
          => feature.feature_mode = FEATURE_NONE)
    /\ [](feature.features # <<>> => feature.feature_mode # FEATURE_NONE)
    /\ [][ModeStep]_vars

\* A control whose two features have no bitmap was drawn and is disabled.
C33_Witness ==
    /\ Len(feature.features) = 2 /\ ~feature.bitmap
    /\ feature.drawn /\ feature.signalled
    /\ feature.feature_mode = FEATURE_DISABLED

\* The point that was probed lies more than 20 pixels away from the first or
\* the last column of the Section, or from its first or its last row, on the
\* outside.
FarOutside ==
    \/ edge.x < bounds[1] - 20
    \/ edge.x > bounds[1] + bounds[3] - 1 + 20
    \/ edge.y < bounds[2] - 20
    \/ edge.y > bounds[2] + bounds[4] - 1 + 20

\* C34: the dock_info_at of the root Section, which is forced to answer,
\* returns the kind DOCK_EXPORT exactly when the point is in no drag bar, on
\* no splitter and in no item and lies more than 20 pixels outside the
\* bounds of the Section on a side; a dock_info_at that is not forced
\* returns None at a point where nothing is found.
C34_ExportBeyondMargin ==
    /\ edge.called /\ edge.root /\ edge.contents
          => /\ ~edge.info.none
             /\ edge.info.kind = DOCK_EXPORT
                   <=> (edge.found = "nothing" /\ FarOutside)
    /\ edge.called /\ ~edge.force /\ edge.found = "nothing"
          => edge.info.none

\* The root Section has answered DOCK_EXPORT at a point 21 pixels left of
\* its first column, on one of its rows.
C34_Witness ==
    /\ edge.called /\ edge.root /\ edge.contents /\ edge.found = "nothing"
    /\ edge.x = bounds[1] - 21
    /\ bounds[2] <= edge.y /\ edge.y < bounds[2] + bounds[4]
    /\ edge.info.kind = DOCK_EXPORT

\* A Section that is not forced has answered None at a point 21 pixels left
\* of its first column.
C34_Unforced ==
    /\ edge.called /\ ~edge.force /\ edge.found = "nothing"
    /\ edge.x = bounds[1] - 21 /\ edge.info.none

\* C35: DockSizer.DockInfoAt returns a DockInfo and never None, at every
\* point, whatever is found there, and also when the sizer has no contents.
C35_DockInfoAtNeverNone ==
    edge.called /\ edge.root => ~edge.info.none

\* A sizer without contents has answered no_dock_info.
C35_Witness ==
    /\ edge.called /\ edge.root /\ ~edge.contents
    /\ ~edge.info.none /\ edge.info.kind = DOCK_NONE

\* A sizer with contents has answered the kind of an edge at a point where
\* nothing is found.
C35_Forced ==
    /\ edge.called /\ edge.root /\ edge.contents /\ edge.found = "nothing"
    /\ ~edge.info.none /\ edge.info.kind \in Edges

\* The two visible items the k-th splitter of the layout lies between.
Neighbours(sec, k) ==
    LET places == VisiblePlaces(sec.contents, 1)
    IN  <<places[k], places[k + 1]>>

\* What update_splitter for the k-th splitter is to do by C36: the first of
\* the two items ends where the splitter begins and the second begins where
\* the splitter ends, the first begins and the second ends where they did,
\* and no other item is touched.
Resized(sec, after, k) ==
    LET pair == Neighbours(sec, k)
        a  == sec.contents[pair[1]]
        b  == sec.contents[pair[2]]
        a1 == after.contents[pair[1]]
        b1 == after.contents[pair[2]]
        x  == after.splitters[k].at
    IN  /\ a1.at = a.at /\ a1.at + a1.size = x
        /\ b1.at = x + Gutter(sec.is_row)
        /\ b1.at + b1.size = b.at + b.size
        /\ \A i \in DOMAIN sec.contents :
              i \notin {pair[1], pair[2]} => after.contents[i] = sec.contents[i]

\* The button is released on the splitter it was pressed on, and the release
\* is not the one of a click that has left the handle, which does nothing.
Releases ==
    /\ section.pressed # 0 /\ section'.pressed = 0
    /\ ~ ( /\ section.splitters[section.pressed].pending
           /\ section'.contents = section.contents
           /\ section'.splitters[section.pressed].at
                 = section.splitters[section.pressed].at )

\* C36: the release of a splitter resizes the two items next to it so that
\* the first ends where the splitter begins and the second begins where the
\* splitter ends; the first begins and the second ends where they did, and
\* the bounds of the other items of the Section do not change.
C36_ReleaseResizesNeighbours ==
    [][Releases => Resized(section, section', section.pressed)]_vars

\* C38: the two items the state of a splitter is taken from are the two
\* visible items it lies between, which get_splitter_bounds, the click on
\* the handle and update_splitter use, also in a Section with hidden items.
C38_SameNeighbours ==
    \A k \in DOMAIN section.splitters :
        /\ StatePair(section, k) = Neighbours(section, k)
        /\ splitter_state(section, k) = splitter_state_visible(section, k)

\* The remembered bounds of a splitter can be taken again: there are some,
\* they are not the ones it has, and they lie between the beginning of the
\* first and the end of the second of its neighbours.
Usable(sec, k) ==
    LET s == sec.splitters[k]
        a == sec.contents[Neighbours(sec, k)[1]]
        b == sec.contents[Neighbours(sec, k)[2]]
    IN  /\ s.last # <<>>
        /\ s.last[1] # s.at
        /\ a.at <= s.last[1]
        /\ s.last[1] + Gutter(sec.is_row) <= b.at + b.size

\* What a click on the handle of the k-th splitter is to do by C37.
Toggled(sec, after, k) ==
    LET s  == sec.splitters[k]
        s1 == after.splitters[k]
        a  == sec.contents[Neighbours(sec, k)[1]]
        b  == sec.contents[Neighbours(sec, k)[2]]
        dx == Gutter(sec.is_row)
    IN  IF s.at # a.at /\ s.at + dx # b.at + b.size
        THEN /\ s1.at \in {a.at, b.at + b.size - dx}
             /\ s1.last = <<s.at>>
        ELSE /\ s1.at = IF Usable(sec, k) THEN s.last[1]
                        ELSE (a.at + b.at + b.size - dx) \div 2
             /\ s1.last = s.last

\* The button is down on the handle of a splitter.
OnHandle == section.pressed # 0 /\ section.splitters[section.pressed].pending

\* C37: a press on the handle of a splitter starts no drag: no move of the
\* pointer changes anything while the button is down; the release on the
\* handle moves a splitter that is in the middle to an end of the span of
\* its two neighbours and keeps the bounds it had, and moves one that is at
\* an end to the bounds it kept, or to the centre of the span when they
\* cannot be taken.
C37_HandleClickToggles ==
    [][OnHandle =>
          \/ section'.pressed # 0 /\ section' = section
          \/ /\ section'.pressed = 0
             /\ section'.contents = section.contents
             /\ section'.splitters[section.pressed].at
                   = section.splitters[section.pressed].at
             /\ section'.splitters[section.pressed].last
                   = section.splitters[section.pressed].last
          \/ /\ section'.pressed = 0
             /\ Toggled(section, section', section.pressed)]_vars

\* The value a read of is_notebook gives for a Region with the contents
\* 'contents' whose _is_notebook is 'cache'.
Read(cache, contents) == get_is_notebook(cache, contents)[1]

\* The value is_notebook is to have: the Region has more than one visible
\* item, or one visible item of style 'tab'.
Fresh(contents) ==
    LET shown == {i \in DOMAIN contents : ChildVisible(contents[i])}
    IN  \/ Cardinality(shown) > 1
        \/ /\ Cardinality(shown) = 1
           /\ \A i \in shown : ChildStyle(contents[i]) = "tab"

\* C39: a read of is_notebook gives what a new computation gives: the
\* Region has more than one visible item, or exactly one visible item whose
\* style is 'tab'; this holds after every add, remove, show, hide, change of
\* style and toggle of the lock, of the items of the Region and of the
\* controls of an item that is a Region.
C39_IsNotebookFresh ==
    Read(region.cache, region.contents) = Fresh(region.contents)

\* r.remove deletes the item at index i of Region r in machine state m: the
\* item is a tab, and not a group of one item that its item replaces.
DeletesTab(m, r, i) ==
    /\ KindOf(m, r) = "region"
    /\ ~(/\ IsGroup(m, m.heap[r].contents[i + 1])
         /\ Len(m.heap[m.heap[r].contents[i + 1]].contents) = 1)
    /\ ~AfterRemove(m, r, i).err

\* The item of Region r that is active in machine state m, None without
\* one.
ActiveItem(m, r) ==
    IF m.heap[r].active \in 0..(Len(m.heap[r].contents) - 1)
    THEN m.heap[r].contents[m.heap[r].active + 1]
    ELSE None

\* C40: r.remove of a tab other than the active one leaves the same item
\* active: the active index is lowered by one when the tab precedes the
\* active one and is not changed otherwise. r.remove of the active tab makes
\* the tab that followed it active, or the tab that preceded it when it was
\* the last one, and leaves active = -1 when the Region has become empty.
C40_RemoveKeepsActive ==
    ~err /\ Sound
        => \A c \in Removals :
              LET m     == c[1]
                  r     == c[2]
                  i     == c[3]
                  tabs  == m.heap[r].contents
                  a     == m.heap[r].active
                  after == AfterRemove(m, r, i)
              IN  DeletesTab(m, r, i)
                     => /\ i # a
                           => /\ after.heap[r].active
                                    = IF i < a THEN a - 1 ELSE a
                              /\ ActiveItem(after, r) = ActiveItem(m, r)
                        /\ i = a /\ i < Len(tabs) - 1
                           => ActiveItem(after, r) = tabs[i + 2]
                        /\ i = a /\ i = Len(tabs) - 1 /\ i > 0
                           => ActiveItem(after, r) = tabs[i]
                        /\ Len(tabs) = 1
                           => /\ after.heap[r].contents = <<>>
                              /\ after.heap[r].active = -1

\* In a sound tree a Region holds two tabs, the second one is active and the
\* first one is removed: the active index goes from 1 to 0 and the second
\* tab is still the active one.
C40_Witness ==
    /\ ~err /\ Sound
    /\ \E c \in Removals :
          /\ DeletesTab(c[1], c[2], c[3])
          /\ Len(c[1].heap[c[2]].contents) = 2
          /\ c[1].heap[c[2]].active = 1
          /\ c[3] = 0
          /\ AfterRemove(c[1], c[2], c[3]).heap[c[2]].active = 0
          /\ ActiveItem(AfterRemove(c[1], c[2], c[3]), c[2])
                = c[1].heap[c[2]].contents[2]

====
